---- MODULE Spec2Model ----
(***************************************************************************)
(* A model of gotossr: the build cache (in-process and Redis backends),    *)
(* the JS runtime pool and the render task, as state machines.             *)
(*                                                                         *)
(* One set of variables carries all components; each specification        *)
(* (DepsSpec, RedisDepsSpec, Spec, PoolSpec, RenderSpec, RenderFairSpec)   *)
(* moves the variables of the component it is about and leaves the others *)
(* at their initial value.                                                 *)
(***************************************************************************)
EXTENDS Integers, Sequences, FiniteSets, TLC

(***************************************************************************)
(* Bounds of the model.                                                    *)
(***************************************************************************)
MaxCalls == 2           \* calls each of them makes
MaxFaults == 1          \* Redis commands that fail with a connection error

CProcs == {1, 2}                    \* goroutines calling the cache concurrently
Roots == {"A", "B"}                 \* files rendered as routes
DepFiles == {"B", "C"}              \* files a build may report as imported
Files == Roots \cup DepFiles

RECURSIVE SeqsUpTo(_, _)
SeqsUpTo(S, n) ==
    IF n = 0 THEN {<<>>}
    ELSE LET shorter == SeqsUpTo(S, n - 1)
         IN  shorter \cup {Append(s, x) : s \in {t \in shorter : Len(t) = n - 1}, x \in S}

DepLists == SeqsUpTo(DepFiles, 2)   \* the dependency lists a build may report

Range(s) == {s[i] : i \in 1..Len(s)}

(***************************************************************************)
(* Go maps: functions whose DOMAIN is the set of keys present.             *)
(***************************************************************************)
EmptyMap == <<>>
MapSet(m, k, v) == [x \in (DOMAIN m) \cup {k} |-> IF x = k THEN v ELSE m[x]]
MapDelete(m, k) == [x \in (DOMAIN m) \ {k} |-> m[x]]

VARIABLES
    backend,        \* "local" or "redis": which Cache implementation NewCache built
    \* LocalCache (src/unnamed/part_001:11-18)
    serverBuilds,   \* serverBuilds.builds
    clientBuilds,   \* clientBuilds.builds
    reactFiles,     \* routeIDToParentFile.reactFiles
    dependencies,   \* parentFileToDependencies.dependencies (forward index)
    parents,        \* dependencyToParentFiles.parents (reverse index)
    \* the Redis server behind RedisCache (src/internal/cache/redis.go)
    redisStrings,   \* string keys: <<"server:", f>>, <<"client:", f>>, <<"deps:", f>>
    redisRoutes,    \* the hash at prefix+"routes"
    redisSets,      \* the sets at <<"revdeps:", dep>>; Redis drops a set that becomes empty
    faults,         \* Redis commands that have failed so far
    \* goroutines calling the cache
    rootOf,         \* the root file each goroutine registers dependencies for
    cpc,            \* where each goroutine is in its call
    cloc,           \* the call's locals: dependencies, oldDeps, loop index
    ncalls,         \* calls started by each goroutine
    registered,     \* per goroutine: the last two lists (as sets) of an unbroken run
                    \* of its calls that returned nil
    overlapped,     \* some call started while another call was in progress
    \* callers of the build store
    stored,         \* <<kind, file>> -> the artifact of the last setBuild that returned
                    \* nil and was not followed by a removal of that key
    ret,            \* what the last getBuild returned
    clearPc,        \* where the goroutine running Clear is
    scanLeft,       \* RedisCache.Clear: keys the SCAN cursor has yet to return
    scanKeys,       \* RedisCache.Clear: the batch SCAN returned, about to be deleted
    nclears,        \* Clear calls started
    \* jsruntime.Pool (src/unnamed/part_004:101-112)
    pool,           \* the buffer of the channel p.pool: runtime handles, oldest first
    poolClosed,     \* close(p.pool) has run
    closed,         \* p.closed
    created,        \* p.created
    allRuntimes,    \* p.allRuntimes
    runtimes,       \* the V8Runtime objects made so far, by handle
    \* goroutines calling Pool.Execute, and the one calling Pool.Close
    ppc,            \* where each goroutine is in Execute
    held,           \* the rt of its Execute / Get / Put
    nexecs,         \* Execute calls started by each goroutine
    xlog,           \* what its current (or last) Execute did so far
    closePc,        \* where the goroutine calling Close is
    ncloses,        \* Close calls started
    peak,           \* the most Get calls ever outstanding (not yet Put back) at once
    \* render tasks (src/go.mod:60-148) and the hot-reload watcher
    spa,            \* engine.CachedClientSPAJS != ""
    opc,            \* where each task's Start is
    oloc,           \* Start's srResult
    bpc,            \* where each task's doRender("server") / doRender("client") is
    bloc,           \* doRender's build, and the result it is sending
    result,         \* what Start returned
    wpc,            \* where each task's dependency write-back goroutine is
    wloc,           \* its dependencies and oldDeps
    hpc,            \* where the watcher's loop is
    hloc,           \* the watcher's filePath, parentFiles and loop position
    nevents,        \* file events the watcher has taken
    started,        \* the tasks in the order their Start began
    bundled,        \* per task, the build types it has called the Bundler for
    delivered,      \* per task and build type, results received from the branch
    fresh,          \* the task began right after a completed, undisturbed invalidation
                    \* that removed its root's builds
    inval           \* the last completed invalidation loop

cacheVars == <<serverBuilds, clientBuilds, reactFiles, dependencies, parents>>
redisVars == <<redisStrings, redisRoutes, redisSets, faults>>
callVars == <<rootOf, cpc, cloc, ncalls, registered, overlapped>>
storeVars == <<stored, ret, clearPc, scanLeft, scanKeys, nclears>>
poolVars == <<pool, poolClosed, closed, created, allRuntimes, runtimes,
              ppc, held, nexecs, xlog, closePc, ncloses, peak>>
cacheSide == <<backend, cacheVars, redisVars, callVars, storeVars>>
taskVars == <<spa, opc, oloc, bpc, bloc, result, wpc, wloc, hpc, hloc, nevents,
              started, bundled, delivered, fresh, inval>>
vars == <<backend, cacheVars, redisVars, callVars, storeVars, poolVars, taskVars>>

(***************************************************************************)
(* encoding/json as RedisCache uses it: Marshal wraps a value into a byte  *)
(* string tagged with its shape, Unmarshal unwraps it and fails on bytes   *)
(* of another shape.                                                       *)
(***************************************************************************)
JSONMarshalStrings(list) == [json |-> "strings", items |-> list]
JSONUnmarshalStrings(data) ==
    IF data.json = "strings" THEN [err |-> FALSE, v |-> data.items]
    ELSE [err |-> TRUE, v |-> <<>>]

(***************************************************************************)
(* LocalCache.SetParentFileDependencies: two critical sections, the        *)
(* forward map under parentFileToDependencies.lock, then the reverse map   *)
(* under dependencyToParentFiles.lock.                                     *)
(***************************************************************************)
NoLoc == [deps |-> <<>>, oldDeps |-> <<>>, i |-> 0]

\* for _, dep := range oldDeps { delete(parents[dep], filePath); drop empty }
RECURSIVE RemoveOldReverseDropKey(_, _, _)
RemoveOldReverseDropKey(par, oldDeps, filePath) ==
    IF oldDeps = <<>> THEN par
    ELSE RemoveOldReverseDropKey(MapDelete(par, Head(oldDeps)), Tail(oldDeps), filePath)

RECURSIVE RemoveOldReverse(_, _, _)
RemoveOldReverse(par, oldDeps, filePath) ==
    IF oldDeps = <<>> THEN par
    ELSE LET dep == Head(oldDeps)
             next == IF dep \in DOMAIN par
                     THEN IF par[dep] \ {filePath} = {}
                          THEN MapDelete(par, dep)
                          ELSE MapSet(par, dep, par[dep] \ {filePath})
                     ELSE par
         IN  RemoveOldReverse(next, Tail(oldDeps), filePath)

\* for _, dep := range dependencies { parents[dep][filePath] = struct{}{} }
RECURSIVE AddNewReverse(_, _, _)
AddNewReverse(par, deps, filePath) ==
    IF deps = <<>> THEN par
    ELSE LET dep == Head(deps)
             cur == IF dep \in DOMAIN par THEN par[dep] ELSE {}
         IN  AddNewReverse(MapSet(par, dep, cur \cup {filePath}), Tail(deps), filePath)

StartCall(p) ==
    /\ cpc[p] = "idle"
    /\ ncalls[p] < MaxCalls
    /\ ncalls' = [ncalls EXCEPT ![p] = @ + 1]
    /\ overlapped' = (overlapped \/ \E q \in CProcs \ {p} : cpc[q] # "idle")

ReturnNil(p, deps) ==
    registered' = [registered EXCEPT ![p] =
                      IF Len(@) < 2 THEN Append(@, Range(deps)) ELSE <<@[2], Range(deps)>>]

ReturnErr(p) == registered' = [registered EXCEPT ![p] = <<>>]

LocalCache_SetParentFileDependencies_Forward(p, deps) ==
    /\ backend = "local"
    /\ StartCall(p)
    /\ LET filePath == rootOf[p]
           oldDeps == IF filePath \in DOMAIN dependencies
                      THEN dependencies[filePath] ELSE <<>>
       IN  /\ dependencies' = MapSet(dependencies, filePath, deps)
           /\ cloc' = [cloc EXCEPT ![p] = [deps |-> deps, oldDeps |-> oldDeps, i |-> 0]]
    /\ cpc' = [cpc EXCEPT ![p] = "reverse"]
    /\ UNCHANGED <<taskVars, poolVars, backend, serverBuilds, clientBuilds, reactFiles, parents,
                   redisVars, rootOf, registered, storeVars>>

LocalCache_SetParentFileDependencies_Reverse(p) ==
    /\ backend = "local"
    /\ cpc[p] = "reverse"
    /\ parents' = AddNewReverse(RemoveOldReverse(parents, cloc[p].oldDeps, rootOf[p]),
                                cloc[p].deps, rootOf[p])
    /\ ReturnNil(p, cloc[p].deps)
    /\ cpc' = [cpc EXCEPT ![p] = "idle"]
    /\ cloc' = [cloc EXCEPT ![p] = NoLoc]
    /\ UNCHANGED <<taskVars, poolVars, backend, serverBuilds, clientBuilds, reactFiles, dependencies,
                   redisVars, rootOf, ncalls, overlapped, storeVars>>

\* LocalCache.GetParentFilesFromDependency: the parents of a dependency, as a set
\* (the slice is built by ranging over a map, in no fixed order).
LocalCache_GetParentFilesFromDependency(dependencyPath) ==
    IF dependencyPath \in DOMAIN parents THEN parents[dependencyPath] ELSE {}

(***************************************************************************)
(* RedisCache.SetParentFileDependencies: one Redis command per step (GET,  *)
(* SREM per old dependency, SET, SADD per new dependency).  A command      *)
(* either runs on the server or fails with a connection error and leaves   *)
(* the server as it was.                                                   *)
(***************************************************************************)
RedisTTL == 0   \* NewCache builds RedisConfig without TTL: keys never expire

DepsKey(filePath) == <<"deps:", filePath>>
RevKey(dep) == <<"revdeps:", dep>>

CanFail == faults < MaxFaults
Fault == faults' = faults + 1

\* SREM key member / SADD key member on the server
SRem_Keep(sets, key, member) == sets
SRem(sets, key, member) ==
    IF key \in DOMAIN sets
    THEN IF sets[key] \ {member} = {} THEN MapDelete(sets, key)
         ELSE MapSet(sets, key, sets[key] \ {member})
    ELSE sets
SAddOtherKey(sets, key, member) == MapSet(sets, key, {member})
SAdd(sets, key, member) ==
    MapSet(sets, key, (IF key \in DOMAIN sets THEN sets[key] ELSE {}) \cup {member})

\* the first command after the GET, and after the SET
AfterGet(oldDeps) == IF Len(oldDeps) > 0 THEN "r_srem" ELSE "r_set"

RedisCache_SetParentFileDependencies_Get(p, deps) ==
    /\ backend = "redis"
    /\ StartCall(p)
    /\ \/ /\ DepsKey(rootOf[p]) \in DOMAIN redisStrings
          /\ LET oldDeps == JSONUnmarshalStrings(redisStrings[DepsKey(rootOf[p])]).v
             IN  /\ cloc' = [cloc EXCEPT ![p] = [deps |-> deps, oldDeps |-> oldDeps, i |-> 1]]
                 /\ cpc' = [cpc EXCEPT ![p] = AfterGet(oldDeps)]
          /\ UNCHANGED faults
       \/ /\ DepsKey(rootOf[p]) \notin DOMAIN redisStrings      \* redis.Nil
          /\ cloc' = [cloc EXCEPT ![p] = [deps |-> deps, oldDeps |-> <<>>, i |-> 1]]
          /\ cpc' = [cpc EXCEPT ![p] = "r_set"]
          /\ UNCHANGED faults
       \/ /\ CanFail                                             \* err != nil, ignored
          /\ Fault
          /\ cloc' = [cloc EXCEPT ![p] = [deps |-> deps, oldDeps |-> <<>>, i |-> 1]]
          /\ cpc' = [cpc EXCEPT ![p] = "r_set"]
    /\ UNCHANGED <<taskVars, poolVars, backend, cacheVars, redisStrings, redisRoutes, redisSets,
                   rootOf, registered, storeVars>>

RedisCache_SetParentFileDependencies_SRem(p) ==
    /\ backend = "redis"
    /\ cpc[p] = "r_srem"
    /\ LET dep == cloc[p].oldDeps[cloc[p].i]
       IN  \/ /\ redisSets' = SRem(redisSets, RevKey(dep), rootOf[p])
              /\ UNCHANGED faults
           \/ /\ CanFail                                         \* the error is dropped
              /\ Fault
              /\ UNCHANGED redisSets
    /\ cloc' = [cloc EXCEPT ![p].i = IF @ < Len(cloc[p].oldDeps) THEN @ + 1 ELSE 1]
    /\ cpc' = [cpc EXCEPT ![p] = IF cloc[p].i < Len(cloc[p].oldDeps) THEN "r_srem" ELSE "r_set"]
    /\ UNCHANGED <<taskVars, poolVars, backend, cacheVars, redisStrings, redisRoutes,
                   rootOf, ncalls, registered, overlapped, storeVars>>

RedisCache_SetParentFileDependencies_Set(p) ==
    /\ backend = "redis"
    /\ cpc[p] = "r_set"
    /\ \/ /\ redisStrings' = MapSet(redisStrings, DepsKey(rootOf[p]),
                                    JSONMarshalStrings(cloc[p].deps))
          /\ UNCHANGED faults
          /\ IF Len(cloc[p].deps) > 0
             THEN /\ cpc' = [cpc EXCEPT ![p] = "r_sadd"]
                  /\ UNCHANGED <<cloc, registered>>
             ELSE /\ cpc' = [cpc EXCEPT ![p] = "idle"]
                  /\ cloc' = [cloc EXCEPT ![p] = NoLoc]
                  /\ ReturnNil(p, cloc[p].deps)
       \/ /\ CanFail                                             \* return err
          /\ Fault
          /\ UNCHANGED redisStrings
          /\ cpc' = [cpc EXCEPT ![p] = "idle"]
          /\ cloc' = [cloc EXCEPT ![p] = NoLoc]
          /\ ReturnErr(p)
    /\ UNCHANGED <<taskVars, poolVars, backend, cacheVars, redisRoutes, redisSets,
                   rootOf, ncalls, overlapped, storeVars>>

RedisCache_SetParentFileDependencies_SAdd(p) ==
    /\ backend = "redis"
    /\ cpc[p] = "r_sadd"
    /\ \/ /\ redisSets' = SAdd(redisSets, RevKey(cloc[p].deps[cloc[p].i]), rootOf[p])
          /\ UNCHANGED faults
          /\ IF cloc[p].i < Len(cloc[p].deps)
             THEN /\ cloc' = [cloc EXCEPT ![p].i = @ + 1]
                  /\ UNCHANGED <<cpc, registered>>
             ELSE /\ cpc' = [cpc EXCEPT ![p] = "idle"]
                  /\ cloc' = [cloc EXCEPT ![p] = NoLoc]
                  /\ ReturnNil(p, cloc[p].deps)
       \/ /\ CanFail                                             \* return err
          /\ Fault
          /\ UNCHANGED redisSets
          /\ cpc' = [cpc EXCEPT ![p] = "idle"]
          /\ cloc' = [cloc EXCEPT ![p] = NoLoc]
          /\ ReturnErr(p)
    /\ UNCHANGED <<taskVars, poolVars, backend, cacheVars, redisStrings, redisRoutes,
                   rootOf, ncalls, overlapped, storeVars>>

\* RedisCache.GetParentFilesFromDependency when SMEMBERS answers: the members of
\* the set, none for a key that does not exist.
RedisCache_GetParentFilesFromDependency(dependencyPath) ==
    IF RevKey(dependencyPath) \in DOMAIN redisSets
    THEN redisSets[RevKey(dependencyPath)] ELSE {}

(***************************************************************************)
(* The Cache interface, whichever backend NewCache built.                  *)
(***************************************************************************)
GetParentFilesFromDependency(dependencyPath) ==
    IF backend = "local" THEN LocalCache_GetParentFilesFromDependency(dependencyPath)
    ELSE RedisCache_GetParentFilesFromDependency(dependencyPath)

\* the forward edge of a root (the dependencies stored for it), as a set
ForwardDeps(filePath) ==
    IF backend = "local"
    THEN IF filePath \in DOMAIN dependencies THEN Range(dependencies[filePath]) ELSE {}
    ELSE IF DepsKey(filePath) \in DOMAIN redisStrings
         THEN Range(JSONUnmarshalStrings(redisStrings[DepsKey(filePath)]).v) ELSE {}

(***************************************************************************)
(* jsruntime.Pool and V8Runtime: the objects.  A runtime handle is the     *)
(* index of a V8Runtime in runtimes; the nil JSRuntime is handle NilRt.    *)
(***************************************************************************)
PoolSize == 1                       \* config.PoolSize
PProcs == {1, 2}                    \* goroutines calling Pool.Execute
NilRt == 0

\* NewV8Runtime: an isolate and a context; dirty: code has run in the context
NewV8Runtime == [context |-> TRUE, isolate |-> TRUE, dirty |-> FALSE]

\* V8Runtime.Reset: close the context if there is one, make a new one
V8Runtime_Reset_Keep(v) == [v EXCEPT !.context = TRUE]
V8Runtime_Reset(v) == [v EXCEPT !.context = TRUE, !.dirty = FALSE]

\* V8Runtime.Destroy: close and nil the context, dispose and nil the isolate
V8Runtime_Destroy_KeepIsolate(v) == [v EXCEPT !.context = FALSE, !.dirty = FALSE]
V8Runtime_Destroy(v) == [context |-> FALSE, isolate |-> FALSE, dirty |-> FALSE]

\* not disposed
Live(v) == v.isolate

\* as Destroy leaves it: neither a context nor an isolate
Disposed(v) == ~v.context /\ ~v.isolate

NoLog == [got |-> <<>>, put |-> <<>>, out |-> "none",
          seenClosed |-> FALSE, acts |-> "none", room |-> FALSE, open |-> FALSE]

\* NewPool(PoolConfig{PoolSize}): PoolSize runtimes created, tracked and queued
InitPool ==
    /\ pool = [i \in 1..PoolSize |-> i]
    /\ poolClosed = FALSE
    /\ closed = FALSE
    /\ created = PoolSize
    /\ allRuntimes = [i \in 1..PoolSize |-> i]
    /\ runtimes = [i \in 1..PoolSize |-> NewV8Runtime]
    /\ ppc = [p \in PProcs |-> "idle"]
    /\ held = [p \in PProcs |-> NilRt]
    /\ nexecs = [p \in PProcs |-> 0]
    /\ xlog = [p \in PProcs |-> NoLog]
    /\ closePc = "idle"
    /\ ncloses = 0
    /\ peak = 0

(***************************************************************************)
(* Render tasks: the objects.  Every task renders root file "A".           *)
(***************************************************************************)
Tasks == {1, 2}
TaskFile(t) == "A"                                  \* renderTask.filePath
Props(t) == IF t = 1 THEN "p1" ELSE "p2"            \* renderTask.props
generateRouteID(filePath) == <<"route", filePath>>
CachedClientSPAJS == "spa.js"

NoResult == [err |-> "none"]
NoBuild == [JS |-> "", CSS |-> "", Dependencies |-> <<>>]
NoBranch == [build |-> NoBuild, val |-> NoResult]
NoWatch == [file |-> "", routes |-> {}, left |-> {}, cur |-> "", all |-> {}, n |-> 0,
            quiet |-> FALSE, built |-> {}]

InitTasks ==
    /\ opc = [t \in Tasks |-> "idle"]
    /\ oloc = [t \in Tasks |-> NoResult]
    /\ bpc = [t \in Tasks |-> [k \in {"server", "client"} |-> "none"]]
    /\ bloc = [t \in Tasks |-> [k \in {"server", "client"} |-> NoBranch]]
    /\ result = [t \in Tasks |-> NoResult]
    /\ wpc = [t \in Tasks |-> "none"]
    /\ wloc = [t \in Tasks |-> NoLoc]
    /\ hpc = "idle"
    /\ hloc = NoWatch
    /\ nevents = 0
    /\ started = <<>>
    /\ bundled = [t \in Tasks |-> {}]
    /\ delivered = [t \in Tasks |-> [k \in {"server", "client"} |-> 0]]
    /\ fresh = [t \in Tasks |-> FALSE]
    /\ inval = [ok |-> FALSE, n |-> 0, parents |-> {}, file |-> "", routes |-> {},
                built |-> {}]

(***************************************************************************)
(* DepsSpec: goroutines registering dependency lists concurrently in the   *)
(* in-process cache.                                                       *)
(***************************************************************************)
InitCache ==
    /\ serverBuilds = EmptyMap
    /\ clientBuilds = EmptyMap
    /\ reactFiles = EmptyMap
    /\ dependencies = EmptyMap
    /\ parents = EmptyMap
    /\ redisStrings = EmptyMap
    /\ redisRoutes = EmptyMap
    /\ redisSets = EmptyMap
    /\ faults = 0

InitCalls ==
    /\ cpc = [p \in CProcs |-> "idle"]
    /\ cloc = [p \in CProcs |-> NoLoc]
    /\ ncalls = [p \in CProcs |-> 0]
    /\ registered = [p \in CProcs |-> <<>>]
    /\ overlapped = FALSE

InitStore ==
    /\ stored = EmptyMap
    /\ ret = [op |-> "none"]
    /\ clearPc = "idle"
    /\ scanLeft = {}
    /\ scanKeys = {}
    /\ nclears = 0

DepsInit ==
    /\ backend = "local"
    /\ rootOf \in {f \in [CProcs -> Roots] : f[1] = "A"}
    /\ InitCache
    /\ InitCalls
    /\ InitStore
    /\ InitPool
    /\ InitTasks
    /\ spa = FALSE

DepsNext ==
    \E p \in CProcs :
        \/ \E deps \in DepLists : LocalCache_SetParentFileDependencies_Forward(p, deps)
        \/ LocalCache_SetParentFileDependencies_Reverse(p)

DepsSpec == DepsInit /\ [][DepsNext]_vars

(***************************************************************************)
(* RedisDepsSpec: the same callers against the Redis backend.              *)
(***************************************************************************)
RedisDepsInit ==
    /\ backend = "redis"
    /\ rootOf \in {f \in [CProcs -> Roots] : f[1] = "A"}
    /\ InitCache
    /\ InitCalls
    /\ InitStore
    /\ InitPool
    /\ InitTasks
    /\ spa = FALSE

RedisDepsNext ==
    \E p \in CProcs :
        \/ \E deps \in DepLists : RedisCache_SetParentFileDependencies_Get(p, deps)
        \/ RedisCache_SetParentFileDependencies_SRem(p)
        \/ RedisCache_SetParentFileDependencies_Set(p)
        \/ RedisCache_SetParentFileDependencies_SAdd(p)

RedisDepsSpec == RedisDepsInit /\ [][RedisDepsNext]_vars

AllIdle == \A p \in CProcs : cpc[p] = "idle"
DistinctRoots == \A p, q \in CProcs : p # q => rootOf[p] # rootOf[q]

Transpose ==
    \A P \in Files, d \in Files :
        P \in GetParentFilesFromDependency(d) <=> d \in ForwardDeps(P)

\* C1: in every reachable state of the Build Cache, also between the steps of
\* running setDependencies calls, the reverse index is the exact transpose of the
\* forward index: P is in reverse[d] if and only if d is in forward[P].
C1_ReverseAlwaysTranspose == Transpose

\* C2: after dependency lists D1 then D2 were registered in sequence for the same
\* root R (R's only writer is idle, its last two calls returned nil with D1, D2),
\* getParentFiles(d) does not contain R for d in D1 \ D2 and contains R for every
\* d in D2.
C2_SecondListReplacesFirst ==
    \A p \in CProcs :
        (/\ cpc[p] = "idle"
         /\ Len(registered[p]) = 2
         /\ \A q \in CProcs \ {p} : rootOf[q] # rootOf[p])
        => LET D1 == registered[p][1]
               D2 == registered[p][2]
           IN  /\ \A d \in D1 \ D2 : rootOf[p] \notin GetParentFilesFromDependency(d)
               /\ \A d \in D2 : rootOf[p] \in GetParentFilesFromDependency(d)

\* C3: once concurrent setDependencies calls on different root paths have all
\* returned, the reverse index of the in-process cache is the transpose of the
\* forward index.
C3_QuiescentTranspose ==
    (backend = "local" /\ DistinctRoots /\ AllIdle) => Transpose

C3_Witness ==
    /\ backend = "local" /\ DistinctRoots /\ AllIdle /\ overlapped
    /\ \E d \in DepFiles : \A p \in CProcs : d \in ForwardDeps(rootOf[p])
    /\ \E p \in CProcs : Len(registered[p]) = 2 /\ registered[p][1] # registered[p][2]

(***************************************************************************)
(* The build store: per kind ("server", "client") a map from file path to  *)
(* reactbuilder.BuildResult.  LocalCache keeps two Go maps, each under its *)
(* own RWMutex, so every call is one atomic step; RedisCache keeps the     *)
(* JSON of the artifact under prefix+"server:"+path / prefix+"client:"+path*)
(* and every call is one Redis command.                                    *)
(***************************************************************************)
Kinds == {"server", "client"}
BuildResults == {[JS |-> "js1", CSS |-> "css1", Dependencies |-> <<>>],
                 [JS |-> "js2", CSS |-> "css1", Dependencies |-> <<"B">>]}
ZeroBuild == [JS |-> "", CSS |-> "", Dependencies |-> <<>>]     \* BuildResult{}

JSONMarshalBuild(b) ==
    [json |-> "build", JS |-> b.JS, CSS |-> b.CSS, Dependencies |-> b.Dependencies]
JSONUnmarshalBuild(data) ==
    IF data.json = "build"
    THEN [err |-> FALSE,
          v |-> [JS |-> data.JS, CSS |-> data.CSS, Dependencies |-> data.Dependencies]]
    ELSE [err |-> TRUE, v |-> ZeroBuild]

ServerKey(filePath) == <<"server:", filePath>>
ClientKey(filePath) == <<"client:", filePath>>

\* ---- LocalCache ----
LocalCache_GetServerBuild_Miss(filePath) ==
    [build |-> ZeroBuild, ok |-> FALSE, err |-> FALSE]
LocalCache_GetServerBuild(filePath) ==
    IF filePath \in DOMAIN serverBuilds
    THEN [build |-> serverBuilds[filePath], ok |-> TRUE, err |-> FALSE]
    ELSE [build |-> ZeroBuild, ok |-> FALSE, err |-> FALSE]

LocalCache_SetServerBuild_Merge(builds, filePath, build) ==
    MapSet(builds, filePath,
           IF filePath \in DOMAIN builds
           THEN [build EXCEPT !.Dependencies = builds[filePath].Dependencies]
           ELSE build)
LocalCache_SetServerBuild(builds, filePath, build) == MapSet(builds, filePath, build)

LocalCache_RemoveServerBuild(builds, filePath) == MapDelete(builds, filePath)

LocalCache_GetClientBuild_Miss(filePath) ==
    [build |-> ZeroBuild, ok |-> FALSE, err |-> FALSE]
LocalCache_GetClientBuild(filePath) ==
    IF filePath \in DOMAIN clientBuilds
    THEN [build |-> clientBuilds[filePath], ok |-> TRUE, err |-> FALSE]
    ELSE [build |-> ZeroBuild, ok |-> FALSE, err |-> FALSE]

\* a write that replaces the JS and CSS of an entry and keeps its Dependencies
LocalCache_SetClientBuild_Fields(builds, filePath, build) ==
    MapSet(builds, filePath,
           IF filePath \in DOMAIN builds
           THEN [build EXCEPT !.Dependencies = builds[filePath].Dependencies]
           ELSE build)
LocalCache_SetClientBuild(builds, filePath, build) == MapSet(builds, filePath, build)

LocalCache_RemoveClientBuild_Keep(builds, filePath) == builds
LocalCache_RemoveClientBuild(builds, filePath) == MapDelete(builds, filePath)

\* ---- RedisCache: what each call does when its command reaches the server ----
\* a GET whose payload does not decode reported as a miss
RedisCache_GetBuildAt_Miss(key) ==
    IF key \notin DOMAIN redisStrings
    THEN [build |-> ZeroBuild, ok |-> FALSE, err |-> FALSE]
    ELSE LET u == JSONUnmarshalBuild(redisStrings[key])
         IN  IF u.err THEN [build |-> ZeroBuild, ok |-> FALSE, err |-> FALSE]
             ELSE [build |-> u.v, ok |-> TRUE, err |-> FALSE]
RedisCache_GetBuildAt(key) ==
    IF key \notin DOMAIN redisStrings
    THEN [build |-> ZeroBuild, ok |-> FALSE, err |-> FALSE]          \* redis.Nil
    ELSE LET u == JSONUnmarshalBuild(redisStrings[key])
         IN  IF u.err THEN [build |-> ZeroBuild, ok |-> FALSE, err |-> TRUE]
             ELSE [build |-> u.v, ok |-> TRUE, err |-> FALSE]
RedisCache_GetServerBuild(filePath) == RedisCache_GetBuildAt(ServerKey(filePath))
RedisCache_GetClientBuild(filePath) == RedisCache_GetBuildAt(ClientKey(filePath))

\* the command failed: (BuildResult{}, false, err)
RedisGetFailed == [build |-> ZeroBuild, ok |-> FALSE, err |-> TRUE]

RedisCache_SetServerBuild(strs, filePath, build) ==
    MapSet(strs, ServerKey(filePath), JSONMarshalBuild(build))
RedisCache_SetClientBuild(strs, filePath, build) ==
    MapSet(strs, ClientKey(filePath), JSONMarshalBuild(build))
\* DEL of both artifacts of the path
RedisCache_RemoveServerBuild_Both(strs, filePath) ==
    MapDelete(MapDelete(strs, ServerKey(filePath)), ClientKey(filePath))
RedisCache_RemoveServerBuild(strs, filePath) == MapDelete(strs, ServerKey(filePath))
RedisCache_RemoveClientBuild(strs, filePath) == MapDelete(strs, ClientKey(filePath))

\* ---- the Cache interface ----
\* every value getBuild(kind, filePath) can return in the current state
GetBuildOutcomes(kind, filePath) ==
    IF backend = "local"
    THEN {IF kind = "server" THEN LocalCache_GetServerBuild(filePath)
          ELSE LocalCache_GetClientBuild(filePath)}
    ELSE {IF kind = "server" THEN RedisCache_GetServerBuild(filePath)
          ELSE RedisCache_GetClientBuild(filePath)}
         \cup (IF CanFail THEN {RedisGetFailed} ELSE {})

StoreKey(kind, filePath) == <<kind, filePath>>

\* ---- the calls, as steps of their callers ----
GetBuildReturns(o) ==
    ret' = [op |-> "get", build |-> o.build, ok |-> o.ok, err |-> o.err]

LocalGetBuild(kind, filePath) ==
    /\ backend = "local"
    /\ GetBuildReturns(
                       IF kind = "server" THEN LocalCache_GetServerBuild(filePath)
                       ELSE LocalCache_GetClientBuild(filePath))
    /\ UNCHANGED <<taskVars, poolVars, backend, cacheVars, redisVars, callVars,
                   stored, clearPc, scanLeft, scanKeys, nclears>>

RedisGetBuild(kind, filePath) ==
    /\ backend = "redis"
    /\ \/ /\ GetBuildReturns(
                             IF kind = "server" THEN RedisCache_GetServerBuild(filePath)
                             ELSE RedisCache_GetClientBuild(filePath))
          /\ UNCHANGED faults
       \/ /\ CanFail
          /\ Fault
          /\ GetBuildReturns(RedisGetFailed)
    /\ UNCHANGED <<taskVars, poolVars, backend, cacheVars, redisStrings, redisRoutes, redisSets, callVars,
                   stored, clearPc, scanLeft, scanKeys, nclears>>

SetBuildOk(kind, filePath, build) ==
    stored' = MapSet(stored, StoreKey(kind, filePath), build)

LocalSetBuild(kind, filePath, build) ==
    /\ backend = "local"
    /\ IF kind = "server"
       THEN /\ serverBuilds' = LocalCache_SetServerBuild(serverBuilds, filePath, build)
            /\ UNCHANGED clientBuilds
       ELSE /\ clientBuilds' = LocalCache_SetClientBuild(clientBuilds, filePath, build)
            /\ UNCHANGED serverBuilds
    /\ SetBuildOk(kind, filePath, build)
    /\ UNCHANGED <<taskVars, poolVars, backend, reactFiles, dependencies, parents, redisVars, callVars,
                   ret, clearPc, scanLeft, scanKeys, nclears>>

RedisSetBuild(kind, filePath, build) ==
    /\ backend = "redis"
    /\ \/ /\ redisStrings' = IF kind = "server"
                             THEN RedisCache_SetServerBuild(redisStrings, filePath, build)
                             ELSE RedisCache_SetClientBuild(redisStrings, filePath, build)
          /\ SetBuildOk(kind, filePath, build)
          /\ UNCHANGED faults
       \/ /\ CanFail                                             \* return err
          /\ Fault
          /\ UNCHANGED <<redisStrings, stored>>
    /\ UNCHANGED <<taskVars, poolVars, backend, cacheVars, redisRoutes, redisSets, callVars,
                   ret, clearPc, scanLeft, scanKeys, nclears>>

RemoveBuildOk(kind, filePath) ==
    stored' = MapDelete(stored, StoreKey(kind, filePath))

LocalRemoveBuild(kind, filePath) ==
    /\ backend = "local"
    /\ IF kind = "server"
       THEN /\ serverBuilds' = LocalCache_RemoveServerBuild(serverBuilds, filePath)
            /\ UNCHANGED clientBuilds
       ELSE /\ clientBuilds' = LocalCache_RemoveClientBuild(clientBuilds, filePath)
            /\ UNCHANGED serverBuilds
    /\ RemoveBuildOk(kind, filePath)
    /\ UNCHANGED <<taskVars, poolVars, backend, reactFiles, dependencies, parents, redisVars, callVars,
                   ret, clearPc, scanLeft, scanKeys, nclears>>

RedisRemoveBuild(kind, filePath) ==
    /\ backend = "redis"
    /\ \/ /\ redisStrings' = IF kind = "server"
                             THEN RedisCache_RemoveServerBuild(redisStrings, filePath)
                             ELSE RedisCache_RemoveClientBuild(redisStrings, filePath)
          /\ RemoveBuildOk(kind, filePath)
          /\ UNCHANGED faults
       \/ /\ CanFail                                             \* return err
          /\ Fault
          /\ UNCHANGED <<redisStrings, stored>>
    /\ UNCHANGED <<taskVars, poolVars, backend, cacheVars, redisRoutes, redisSets, callVars,
                   ret, clearPc, scanLeft, scanKeys, nclears>>

(***************************************************************************)
(* Clear.  LocalCache.Clear replaces the five maps one after the other,    *)
(* each under its own lock.  RedisCache.Clear iterates SCAN prefix* and    *)
(* deletes each batch with DEL until the cursor is back at 0.              *)
(***************************************************************************)
DropKind(st, kind) == [k \in {x \in DOMAIN st : x[1] # kind} |-> st[k]]

ClearStep(from, to) ==
    /\ clearPc = from
    /\ clearPc' = to

LocalCache_Clear_serverBuilds ==
    /\ backend = "local"
    /\ nclears < MaxCalls
    /\ nclears' = nclears + 1
    /\ ClearStep("idle", "clientBuilds")
    /\ serverBuilds' = EmptyMap
    /\ stored' = DropKind(stored, "server")
    /\ UNCHANGED <<taskVars, poolVars, backend, clientBuilds, reactFiles, dependencies, parents, redisVars,
                   callVars, ret, scanLeft, scanKeys>>

LocalCache_Clear_clientBuilds ==
    /\ backend = "local"
    /\ ClearStep("clientBuilds", "routeIDToParentFile")
    /\ clientBuilds' = EmptyMap
    /\ stored' = DropKind(stored, "client")
    /\ UNCHANGED <<taskVars, poolVars, backend, serverBuilds, reactFiles, dependencies, parents, redisVars,
                   callVars, ret, scanLeft, scanKeys, nclears>>

LocalCache_Clear_routeIDToParentFile ==
    /\ backend = "local"
    /\ ClearStep("routeIDToParentFile", "parentFileToDependencies")
    /\ reactFiles' = EmptyMap
    /\ UNCHANGED <<taskVars, poolVars, backend, serverBuilds, clientBuilds, dependencies, parents, redisVars,
                   callVars, stored, ret, scanLeft, scanKeys, nclears>>

LocalCache_Clear_parentFileToDependencies ==
    /\ backend = "local"
    /\ ClearStep("parentFileToDependencies", "dependencyToParentFiles")
    /\ dependencies' = EmptyMap
    /\ UNCHANGED <<taskVars, poolVars, backend, serverBuilds, clientBuilds, reactFiles, parents, redisVars,
                   callVars, stored, ret, scanLeft, scanKeys, nclears>>

LocalCache_Clear_dependencyToParentFiles ==
    /\ backend = "local"
    /\ ClearStep("dependencyToParentFiles", "idle")
    /\ parents' = EmptyMap
    /\ UNCHANGED <<taskVars, poolVars, backend, serverBuilds, clientBuilds, reactFiles, dependencies, redisVars,
                   callVars, stored, ret, scanLeft, scanKeys, nclears>>

\* every key under the prefix that exists on the server
RoutesKey == <<"routes">>
RedisKeys ==
    (DOMAIN redisStrings) \cup (DOMAIN redisSets)
        \cup (IF redisRoutes = EmptyMap THEN {} ELSE {RoutesKey})

\* DEL keys...
RedisDel_None(m, keys) == m
RedisDel(m, keys) == [k \in (DOMAIN m) \ keys |-> m[k]]

\* the artifacts a DEL of these keys removes
DropKeys(st, keys) ==
    [k \in {x \in DOMAIN st :
               /\ ~(x[1] = "server" /\ ServerKey(x[2]) \in keys)
               /\ ~(x[1] = "client" /\ ClientKey(x[2]) \in keys)} |-> st[k]]

\* SCAN cursor pattern 100: a batch of keys and the next cursor.  A full iteration
\* returns every key that exists throughout it.  scanLeft stands for the cursor: the
\* keys of the iteration's start that are still to come, the cursor being 0 when
\* none is; a batch is all of them or one of them.
RedisCache_Clear_Scan ==
    /\ backend = "redis"
    /\ \/ /\ clearPc = "idle"
          /\ nclears < MaxCalls
          /\ nclears' = nclears + 1
       \/ /\ clearPc = "scan"
          /\ UNCHANGED nclears
    /\ LET left == IF clearPc = "idle" THEN RedisKeys ELSE scanLeft
       IN  \/ \E batch \in {left} \cup {{k} : k \in left} :
                 /\ scanKeys' = batch
                 /\ scanLeft' = left \ batch
                 /\ clearPc' = IF batch # {} THEN "del"
                               ELSE IF left \ batch = {} THEN "idle" ELSE "scan"
                 /\ UNCHANGED faults
           \/ /\ CanFail                                         \* return err
              /\ Fault
              /\ scanKeys' = {}
              /\ scanLeft' = {}
              /\ clearPc' = "idle"
    /\ UNCHANGED <<taskVars, poolVars, backend, cacheVars, redisStrings, redisRoutes, redisSets, callVars,
                   stored, ret>>

RedisCache_Clear_Del ==
    /\ backend = "redis"
    /\ clearPc = "del"
    /\ \/ /\ redisStrings' = RedisDel(redisStrings, scanKeys)
          /\ redisSets' = RedisDel(redisSets, scanKeys)
          /\ redisRoutes' = IF RoutesKey \in scanKeys THEN EmptyMap ELSE redisRoutes
          /\ stored' = DropKeys(stored, scanKeys)
          /\ clearPc' = IF scanLeft = {} THEN "idle" ELSE "scan"
          /\ UNCHANGED <<faults, scanLeft>>
       \/ /\ CanFail                                             \* return err
          /\ Fault
          /\ clearPc' = "idle"
          /\ scanLeft' = {}
          /\ UNCHANGED <<redisStrings, redisSets, redisRoutes, stored>>
    /\ scanKeys' = {}
    /\ UNCHANGED <<taskVars, poolVars, backend, cacheVars, callVars, ret, nclears>>

(***************************************************************************)
(* Spec: callers of the build store of either backend, and one goroutine   *)
(* running Clear.                                                          *)
(***************************************************************************)
Init ==
    /\ backend \in {"local", "redis"}
    /\ rootOf = [p \in CProcs |-> "A"]
    /\ InitCache
    /\ InitCalls
    /\ InitStore
    /\ InitPool
    /\ InitTasks
    /\ spa = FALSE

Next ==
    \/ \E kind \in Kinds, filePath \in Roots :
          \/ LocalGetBuild(kind, filePath)
          \/ RedisGetBuild(kind, filePath)
          \/ LocalRemoveBuild(kind, filePath)
          \/ RedisRemoveBuild(kind, filePath)
          \/ \E build \in BuildResults :
                \/ LocalSetBuild(kind, filePath, build)
                \/ RedisSetBuild(kind, filePath, build)
    \/ LocalCache_Clear_serverBuilds
    \/ LocalCache_Clear_clientBuilds
    \/ LocalCache_Clear_routeIDToParentFile
    \/ LocalCache_Clear_parentFileToDependencies
    \/ LocalCache_Clear_dependencyToParentFiles
    \/ RedisCache_Clear_Scan
    \/ RedisCache_Clear_Del

Spec == Init /\ [][Next]_vars

(***************************************************************************)
(* ClearSpec: a store that earlier calls have filled, and one goroutine    *)
(* calling Clear, with no other call in progress.                          *)
(***************************************************************************)
FilledBuild == [JS |-> "js1", CSS |-> "css1", Dependencies |-> <<"B">>]

\* the store after the Set calls named: a server build, a client build, a route
\* record and the dependency list <<"B">> of root A, as far as each was made
\* and the strings an earlier process left under other keys
FilledStore(hasServer, hasClient, hasRoute, hasDeps, leftover) ==
    LET builds(has) == IF has THEN MapSet(EmptyMap, "A", FilledBuild) ELSE EmptyMap
        s1 == IF hasServer THEN RedisCache_SetServerBuild(EmptyMap, "A", FilledBuild)
              ELSE EmptyMap
        s2 == IF hasClient THEN RedisCache_SetClientBuild(s1, "A", FilledBuild) ELSE s1
        s3 == IF hasDeps THEN MapSet(s2, DepsKey("A"), JSONMarshalStrings(<<"B">>)) ELSE s2
        s4 == [k \in (DOMAIN s3) \cup (DOMAIN leftover) |->
                 IF k \in DOMAIN leftover THEN leftover[k] ELSE s3[k]]
    IN  /\ serverBuilds = (IF backend = "local" THEN builds(hasServer) ELSE EmptyMap)
        /\ clientBuilds = (IF backend = "local" THEN builds(hasClient) ELSE EmptyMap)
        /\ reactFiles = (IF backend = "local" /\ hasRoute
                         THEN MapSet(EmptyMap, generateRouteID("A"), "A") ELSE EmptyMap)
        /\ dependencies = (IF backend = "local" /\ hasDeps
                           THEN MapSet(EmptyMap, "A", <<"B">>) ELSE EmptyMap)
        /\ parents = (IF backend = "local" /\ hasDeps
                      THEN AddNewReverse(EmptyMap, <<"B">>, "A") ELSE EmptyMap)
        /\ redisStrings = (IF backend = "redis" THEN s4 ELSE EmptyMap)
        /\ redisRoutes = (IF backend = "redis" /\ hasRoute
                          THEN MapSet(EmptyMap, generateRouteID("A"), "A") ELSE EmptyMap)
        /\ redisSets = (IF backend = "redis" /\ hasDeps
                        THEN SAdd(EmptyMap, RevKey("B"), "A") ELSE EmptyMap)
        /\ stored = [k \in {x \in {StoreKey("server", "A"), StoreKey("client", "A")} :
                              \/ x[1] = "server" /\ hasServer
                              \/ x[1] = "client" /\ hasClient} |-> FilledBuild]
        /\ ret = (IF hasServer
                  THEN [op |-> "get", build |-> FilledBuild, ok |-> TRUE, err |-> FALSE]
                  ELSE [op |-> "get", build |-> ZeroBuild, ok |-> FALSE, err |-> FALSE])

FilledInit(hasServer, hasClient, hasRoute, hasDeps) ==
    FilledStore(hasServer, hasClient, hasRoute, hasDeps, EmptyMap)

ClearInit ==
    /\ backend \in {"local", "redis"}
    /\ rootOf = [p \in CProcs |-> "A"]
    /\ \E hasServer, hasClient, hasRoute, hasDeps \in BOOLEAN :
          FilledInit(hasServer, hasClient, hasRoute, hasDeps)
    /\ faults = 0
    /\ InitCalls
    /\ clearPc = "idle"
    /\ scanLeft = {}
    /\ scanKeys = {}
    /\ nclears = 0
    /\ InitPool
    /\ InitTasks
    /\ spa = FALSE

ClearNext ==
    \/ LocalCache_Clear_serverBuilds
    \/ LocalCache_Clear_clientBuilds
    \/ LocalCache_Clear_routeIDToParentFile
    \/ LocalCache_Clear_parentFileToDependencies
    \/ LocalCache_Clear_dependencyToParentFiles
    \/ RedisCache_Clear_Scan
    \/ RedisCache_Clear_Del

ClearSpec == ClearInit /\ [][ClearNext]_vars

\* no server or client artifact, no route record, no forward or reverse edge
StoreEmpty ==
    /\ serverBuilds = EmptyMap /\ clientBuilds = EmptyMap /\ reactFiles = EmptyMap
    /\ dependencies = EmptyMap /\ parents = EmptyMap
    /\ redisStrings = EmptyMap /\ redisRoutes = EmptyMap /\ redisSets = EmptyMap

\* C20: with no other call in progress, once a Clear has returned nil the store is
\* empty, and it is empty again after a second Clear; a Clear returns an error only
\* when a Redis command fails (one command at most per call, so more calls returned
\* than commands failed means some call returned nil), never because the store is
\* empty already: on the empty Redis store it is one SCAN that returns no key.
C20_ClearTwiceEmpty ==
    /\ []((clearPc = "idle" /\ nclears > faults) =>
             /\ StoreEmpty
             /\ \A kind \in Kinds, filePath \in Roots :
                   \A o \in GetBuildOutcomes(kind, filePath) : ~o.err => ~o.ok)
    /\ [](backend = "local" => faults = 0)
    /\ [][(/\ backend = "redis" /\ clearPc = "idle" /\ StoreEmpty
           /\ nclears' # nclears /\ faults' = faults) =>
             /\ clearPc' = "idle"
             /\ UNCHANGED <<redisStrings, redisRoutes, redisSets>>]_vars

C20_Witness ==
    /\ clearPc = "idle" /\ nclears = 2 /\ faults = 0
    /\ ret.ok
    /\ StoreEmpty

\* the artifact last set for (kind, filePath) and not removed since, as the value a
\* getBuild returns for it
ExpectedGet(kind, filePath) ==
    IF StoreKey(kind, filePath) \in DOMAIN stored
    THEN [build |-> stored[StoreKey(kind, filePath)], ok |-> TRUE, err |-> FALSE]
    ELSE [build |-> ZeroBuild, ok |-> FALSE, err |-> FALSE]

\* the artifact maps after a setBuild(kind, filePath, build) that returns nil
StoreAfterSet(kind, filePath, build) ==
    IF backend = "local"
    THEN IF kind = "server"
         THEN <<LocalCache_SetServerBuild(serverBuilds, filePath, build), clientBuilds,
                redisStrings>>
         ELSE <<serverBuilds, LocalCache_SetClientBuild(clientBuilds, filePath, build),
                redisStrings>>
    ELSE IF kind = "server"
         THEN <<serverBuilds, clientBuilds,
                RedisCache_SetServerBuild(redisStrings, filePath, build)>>
         ELSE <<serverBuilds, clientBuilds,
                RedisCache_SetClientBuild(redisStrings, filePath, build)>>

\* C5: for every kind and path, a getBuild that returns without error returns
\* found = true with exactly the artifact of the most recent setBuild of that
\* (kind, path) that returned nil and was not followed by a removeBuild or a clear
\* of that key, and found = false when there is none (a second setBuild overwrites
\* the first wholesale); and a setBuild of the artifact that is already stored
\* leaves the store as it is.
C5_GetReturnsLastSet ==
    \A kind \in Kinds, filePath \in Roots :
        /\ \A o \in GetBuildOutcomes(kind, filePath) :
               ~o.err => o = ExpectedGet(kind, filePath)
        /\ \A build \in BuildResults :
               ExpectedGet(kind, filePath) = [build |-> build, ok |-> TRUE, err |-> FALSE]
               => StoreAfterSet(kind, filePath, build)
                     = <<serverBuilds, clientBuilds, redisStrings>>

\* a getBuild found an artifact after a clear had begun, another path's server
\* artifact being absent
C5_Witness ==
    /\ ret.op = "get" /\ ret.ok
    /\ ret.build = [JS |-> "js2", CSS |-> "css1", Dependencies |-> <<"B">>]
    /\ nclears > 0
    /\ \E f \in Roots : StoreKey("server", f) \notin DOMAIN stored

(***************************************************************************)
(* jsruntime.Pool: Get, Put, Execute and Close, one step per channel       *)
(* operation or critical section.  p.pool is a buffered channel of         *)
(* capacity maxSize; Get and Put use select with a default case.           *)
(***************************************************************************)
\* which case the select of Get takes: a receive from a closed, empty channel is
\* ready and yields the zero value
Get_select_Wait(q, chClosed) ==
    IF Len(q) > 0 THEN "recv" ELSE IF chClosed THEN "closed" ELSE "block"
Get_select(q, chClosed) ==
    IF Len(q) > 0 THEN "recv" ELSE IF chClosed THEN "closed" ELSE "default"

\* which case the select of Put takes: a send on a closed channel panics
Put_select_Overfill(q, maxSize, chClosed) ==
    IF chClosed THEN "panic" ELSE IF Len(q) <= maxSize THEN "send" ELSE "default"
Put_select(q, maxSize, chClosed) ==
    IF chClosed THEN "panic" ELSE IF Len(q) < maxSize THEN "send" ELSE "default"

\* defer p.Put(rt): where Execute goes once rt.Execute returned or panicked
Execute_defer_OnSuccess(out) == IF out = "ok" THEN "put" ELSE "idle"
Execute_defer(out) == "put"

\* where the goroutine is once the deferred Put returned
AfterPut(out) == IF out = "panic" THEN "panicked" ELSE "idle"

PoolFrame == UNCHANGED <<cacheSide, taskVars>>

\* Execute(code): entry
Pool_Execute(p) ==
    /\ ppc[p] = "idle"
    /\ nexecs[p] < MaxCalls
    /\ nexecs' = [nexecs EXCEPT ![p] = @ + 1]
    /\ xlog' = [xlog EXCEPT ![p] = NoLog]
    /\ ppc' = [ppc EXCEPT ![p] = "get"]
    /\ UNCHANGED <<pool, poolClosed, closed, created, allRuntimes, runtimes, held,
                   closePc, ncloses>>
    /\ UNCHANGED peak
    /\ PoolFrame

\* rt := <-p.pool: what the receive leaves in the channel
ChanRecv_Peek(q) == q
ChanRecv(q) == Tail(q)

\* the goroutines holding what a Get gave them, up to the end of their Put
Borrowers == {q \in PProcs : ppc[q] \notin {"idle", "panicked", "get"}}

\* Get: the select; on default, createRuntime up to newRuntime()
Pool_Get(p) ==
    /\ ppc[p] = "get"
    /\ LET case == Get_select(pool, poolClosed)
       IN  /\ case # "block"
           /\ IF case = "recv"
              THEN /\ held' = [held EXCEPT ![p] = Head(pool)]
                   /\ pool' = ChanRecv(pool)
                   /\ xlog' = [xlog EXCEPT ![p].got = Append(@, Head(pool))]
                   /\ ppc' = [ppc EXCEPT ![p] = "run"]
                   /\ UNCHANGED <<created, runtimes>>
              ELSE IF case = "closed"
              THEN /\ held' = [held EXCEPT ![p] = NilRt]
                   /\ xlog' = [xlog EXCEPT ![p].got = Append(@, NilRt)]
                   /\ ppc' = [ppc EXCEPT ![p] = "run"]
                   /\ UNCHANGED <<pool, created, runtimes>>
              ELSE /\ created' = created + 1
                   /\ runtimes' = Append(runtimes, NewV8Runtime)
                   /\ held' = [held EXCEPT ![p] = Len(runtimes) + 1]
                   /\ ppc' = [ppc EXCEPT ![p] = "track"]
                   /\ UNCHANGED <<pool, xlog>>
    /\ UNCHANGED <<poolClosed, closed, allRuntimes, nexecs, closePc, ncloses>>
    /\ peak' = IF Cardinality(Borrowers) + 1 > peak
               THEN Cardinality(Borrowers) + 1 ELSE peak
    /\ PoolFrame

\* createRuntime: append to allRuntimes under runtimesMu; Get returns rt
Pool_createRuntime_Track(p) ==
    /\ ppc[p] = "track"
    /\ allRuntimes' = Append(allRuntimes, held[p])
    /\ xlog' = [xlog EXCEPT ![p].got = Append(@, held[p])]
    /\ ppc' = [ppc EXCEPT ![p] = "run"]
    /\ UNCHANGED <<pool, poolClosed, closed, created, runtimes, held, nexecs,
                   closePc, ncloses>>
    /\ UNCHANGED peak
    /\ PoolFrame

\* rt.Execute(code): a result, an error, or a panic on a nil rt or a nil context
Pool_Execute_Run(p) ==
    /\ ppc[p] = "run"
    /\ \E out \in {"ok", "err", "panic"} :
          /\ IF held[p] = NilRt \/ ~runtimes[held[p]].context
             THEN /\ out = "panic"
                  /\ UNCHANGED runtimes
             ELSE /\ out # "panic"
                  /\ runtimes' = [runtimes EXCEPT ![held[p]].dirty = TRUE]
          /\ xlog' = [xlog EXCEPT ![p].out = out]
          /\ ppc' = [ppc EXCEPT ![p] = Execute_defer(out)]
    /\ UNCHANGED <<pool, poolClosed, closed, created, allRuntimes, held, nexecs,
                   closePc, ncloses>>
    /\ UNCHANGED peak
    /\ PoolFrame

\* Put(rt): closed := p.closed under p.mu
Pool_Put_ReadClosed(p) ==
    /\ ppc[p] = "put"
    /\ xlog' = [xlog EXCEPT ![p].put = Append(@, held[p]), ![p].seenClosed = closed]
    /\ ppc' = [ppc EXCEPT ![p] = IF closed THEN "put_destroy" ELSE "put_reset"]
    /\ UNCHANGED <<pool, poolClosed, closed, created, allRuntimes, runtimes, held,
                   nexecs, closePc, ncloses>>
    /\ UNCHANGED peak
    /\ PoolFrame

\* Put, pool closed: rt.Destroy(); return
Pool_Put_Destroy(p) ==
    /\ ppc[p] = "put_destroy"
    /\ IF held[p] = NilRt
       THEN /\ xlog' = [xlog EXCEPT ![p].acts = "panic"]
            /\ ppc' = [ppc EXCEPT ![p] = "panicked"]
            /\ UNCHANGED runtimes
       ELSE /\ runtimes' = [runtimes EXCEPT ![held[p]] = V8Runtime_Destroy(@)]
            /\ xlog' = [xlog EXCEPT ![p].acts = "destroy"]
            /\ ppc' = [ppc EXCEPT ![p] = AfterPut(xlog[p].out)]
    /\ held' = [held EXCEPT ![p] = NilRt]
    /\ UNCHANGED <<pool, poolClosed, closed, created, allRuntimes, nexecs,
                   closePc, ncloses>>
    /\ UNCHANGED peak
    /\ PoolFrame

\* Put, pool open: rt.Reset()
Pool_Put_Reset(p) ==
    /\ ppc[p] = "put_reset"
    /\ IF held[p] = NilRt
       THEN /\ xlog' = [xlog EXCEPT ![p].acts = "panic"]
            /\ ppc' = [ppc EXCEPT ![p] = "panicked"]
            /\ UNCHANGED runtimes
       ELSE /\ runtimes' = [runtimes EXCEPT ![held[p]] = V8Runtime_Reset(@)]
            /\ xlog' = [xlog EXCEPT ![p].acts = "reset"]
            /\ ppc' = [ppc EXCEPT ![p] = "put_select"]
    /\ UNCHANGED <<pool, poolClosed, closed, created, allRuntimes, held, nexecs,
                   closePc, ncloses>>
    /\ UNCHANGED peak
    /\ PoolFrame

\* Put, pool open: select { case p.pool <- rt: default: rt.Destroy() }
Pool_Put_Select(p) ==
    /\ ppc[p] = "put_select"
    /\ LET case == Put_select(pool, PoolSize, poolClosed)
           log == [xlog[p] EXCEPT !.room = Len(pool) < PoolSize, !.open = ~closed]
       IN  IF case = "panic"
           THEN /\ xlog' = [xlog EXCEPT ![p] = [log EXCEPT !.acts = "reset,panic"]]
                /\ ppc' = [ppc EXCEPT ![p] = "panicked"]
                /\ UNCHANGED <<pool, runtimes>>
           ELSE IF case = "send"
           THEN /\ pool' = Append(pool, held[p])
                /\ xlog' = [xlog EXCEPT ![p] = [log EXCEPT !.acts = "reset,enqueue"]]
                /\ ppc' = [ppc EXCEPT ![p] = AfterPut(xlog[p].out)]
                /\ UNCHANGED runtimes
           ELSE /\ runtimes' = [runtimes EXCEPT ![held[p]] = V8Runtime_Destroy(@)]
                /\ xlog' = [xlog EXCEPT ![p] = [log EXCEPT !.acts = "reset,destroy"]]
                /\ ppc' = [ppc EXCEPT ![p] = AfterPut(xlog[p].out)]
                /\ UNCHANGED pool
    /\ held' = [held EXCEPT ![p] = NilRt]
    /\ UNCHANGED <<poolClosed, closed, created, allRuntimes, nexecs, closePc, ncloses>>
    /\ UNCHANGED peak
    /\ PoolFrame

\* Close: under p.mu, return if closed, else p.closed = true
Pool_Close_Mark ==
    /\ closePc = "idle"
    /\ ncloses < MaxCalls
    /\ ncloses' = ncloses + 1
    /\ closed' = TRUE
    /\ closePc' = IF closed THEN "idle" ELSE "close_chan"
    /\ UNCHANGED <<pool, poolClosed, created, allRuntimes, runtimes, ppc, held,
                   nexecs, xlog>>
    /\ UNCHANGED peak
    /\ PoolFrame

\* Close: close(p.pool)
Pool_Close_CloseChan ==
    /\ closePc = "close_chan"
    /\ poolClosed' = TRUE
    /\ closePc' = "drain"
    /\ UNCHANGED <<pool, closed, created, allRuntimes, runtimes, ppc, held,
                   nexecs, xlog, ncloses>>
    /\ UNCHANGED peak
    /\ PoolFrame

\* Close: for rt := range p.pool { rt.Destroy() }
Pool_Close_Drain ==
    /\ closePc = "drain"
    /\ IF Len(pool) > 0
       THEN /\ runtimes' = [runtimes EXCEPT ![Head(pool)] = V8Runtime_Destroy(@)]
            /\ pool' = Tail(pool)
            /\ UNCHANGED closePc
       ELSE /\ closePc' = "destroy_all"
            /\ UNCHANGED <<pool, runtimes>>
    /\ UNCHANGED <<poolClosed, closed, created, allRuntimes, ppc, held,
                   nexecs, xlog, ncloses>>
    /\ UNCHANGED peak
    /\ PoolFrame

\* Close: under runtimesMu, destroy every tracked runtime; allRuntimes = nil
Pool_Close_DestroyAll ==
    /\ closePc = "destroy_all"
    /\ runtimes' = [e \in DOMAIN runtimes |->
                       IF e \in Range(allRuntimes) THEN V8Runtime_Destroy(runtimes[e])
                       ELSE runtimes[e]]
    /\ allRuntimes' = <<>>
    /\ closePc' = "idle"
    /\ UNCHANGED <<pool, poolClosed, closed, created, ppc, held, nexecs, xlog, ncloses>>
    /\ UNCHANGED peak
    /\ PoolFrame

(***************************************************************************)
(* PoolSpec: goroutines calling Execute on one pool, and one calling Close.*)
(***************************************************************************)
PoolInit ==
    /\ backend = "local"
    /\ rootOf = [p \in CProcs |-> "A"]
    /\ InitCache
    /\ InitCalls
    /\ InitStore
    /\ InitPool
    /\ InitTasks
    /\ spa = FALSE

PoolNext ==
    \/ \E p \in PProcs :
          \/ Pool_Execute(p)
          \/ Pool_Get(p)
          \/ Pool_createRuntime_Track(p)
          \/ Pool_Execute_Run(p)
          \/ Pool_Put_ReadClosed(p)
          \/ Pool_Put_Destroy(p)
          \/ Pool_Put_Reset(p)
          \/ Pool_Put_Select(p)
    \/ Pool_Close_Mark
    \/ Pool_Close_CloseChan
    \/ Pool_Close_Drain
    \/ Pool_Close_DestroyAll

PoolSpec == PoolInit /\ [][PoolNext]_vars

LiveRuntimes == {e \in DOMAIN runtimes : Live(runtimes[e])}
PoolTypeOK ==
    /\ Len(runtimes) = created
    /\ \A i \in 1..Len(pool) : pool[i] \in DOMAIN runtimes

PutDone(p) == Len(xlog[p].put) = 1 /\ ppc[p] \in {"idle", "panicked"}

\* C8: acquire never blocks and is never refused: the step of Get is enabled
\* whenever a goroutine is at it, and while the pool is open (p.closed is false) Get
\* takes the idle runtime at the head of the queue when one is queued and otherwise
\* creates a new one, so every goroutine that is past Get holds a runtime that is
\* not nil and not disposed, however many of them there are at once.
C8_GetNeverBlocks ==
    /\ \A p \in PProcs :
          /\ ppc[p] = "get" => ENABLED Pool_Get(p)
          /\ ppc[p] = "track" => ENABLED Pool_createRuntime_Track(p)
    /\ ~closed =>
          /\ Get_select(pool, poolClosed) = IF Len(pool) > 0 THEN "recv" ELSE "default"
          /\ \A i \in 1..Len(pool) : Live(runtimes[pool[i]])
          /\ \A p \in PProcs :
                /\ ppc[p] \in {"track", "run", "put"}
                      => held[p] # NilRt /\ Live(runtimes[held[p]])
                /\ Len(xlog[p].got) = 1 => xlog[p].got[1] # NilRt

\* more goroutines hold a runtime at once than the pool's capacity, one of the
\* runtimes made on the spot
C8_Witness ==
    /\ ~closed
    /\ \A p \in PProcs : ppc[p] = "run"
    /\ Cardinality({held[p] : p \in PProcs}) = Cardinality(PProcs)
    /\ Cardinality(PProcs) > PoolSize
    /\ created > PoolSize

C10_ExecuteOneGetOnePut ==
    \A p \in PProcs :
        /\ Len(xlog[p].got) <= 1
        /\ Len(xlog[p].put) <= Len(xlog[p].got)
        /\ Len(xlog[p].put) = 1 =>
              xlog[p].put[1] = xlog[p].got[1] /\ xlog[p].out # "none"
        /\ (ppc[p] \in {"idle", "panicked"} /\ nexecs[p] > 0) =>
              Len(xlog[p].got) = 1 /\ Len(xlog[p].put) = 1

\* one Execute has returned after an error of the engine's run, another after a
\* result
C10_Witness ==
    \E p, q \in PProcs :
        /\ ppc[p] = "idle" /\ xlog[p].out = "err" /\ Len(xlog[p].put) = 1
        /\ ppc[q] = "idle" /\ xlog[q].out = "ok" /\ Len(xlog[q].put) = 1
        /\ xlog[p].put[1] # NilRt

\* a Close has returned
CloseReturned == closed /\ closePc = "idle"

\* the runtimes whose createRuntime has made them but not yet tracked them
BeingCreated == {held[p] : p \in {q \in PProcs : ppc[q] = "track"}}

TrackedCount == Len(allRuntimes)

\* C12: over every interleaving of Get/Put pairs of the goroutines, the number of
\* runtimes created and tracked for cleanup never exceeds the peak number of Get calls
\* outstanding at once (the PoolSize runtimes NewPool makes before any Get are allowed
\* for and only pools no Close has touched are looked at, so the statement checked is
\* the weaker one).
C12_TrackedWithinPeak ==
    (~closed /\ ncloses = 0) =>
        TrackedCount <= (IF peak > PoolSize THEN peak ELSE PoolSize)

\* C13: over every interleaving of Get, Put and Close, once a Close has returned no
\* runtime is live (isolate not disposed), a runtime whose creation by a Get overlapped
\* the Close included.
C13_NoLiveAfterClose ==
    CloseReturned => LiveRuntimes = {}

\* C14: in every reachable state no runtime is held by two borrowers at once, and no
\* runtime is both in the idle queue and checked out (a borrower that Get handed nil,
\* from the closed channel, holds no runtime).
C14_ExclusiveOwnership ==
    \A p \in Borrowers :
        held[p] # NilRt =>
            /\ \A q \in Borrowers \ {p} : held[q] # held[p]
            /\ held[p] \notin Range(pool)

C14_Witness ==
    /\ pool # <<>>
    /\ created > PoolSize
    /\ \E p \in PProcs : ppc[p] = "run" /\ held[p] # NilRt /\ Live(runtimes[held[p]])

(***************************************************************************)
(* renderTask.Start and doRender over the in-process cache.  The two       *)
(* result channels are unbuffered: a branch at its send stays there until  *)
(* Start receives from that channel, and the two move together.            *)
(***************************************************************************)
BuildFailed == [failed |-> TRUE]

\* fmt.Sprintf(`var props = %s; %s`, props, compiledJS)
injectProps(compiledJS, props) == <<"var props = ", props, "; ", compiledJS>>

\* the html the engine returns for a script
RenderedHTML(js) == <<"html", js>>

\* handleBuildError: the branch's next position and the result it sends
handleBuildError_Store(kind) ==
    [pc |-> "update", val |-> NoResult]
handleBuildError_Drop(kind) ==
    [pc |-> "done", val |-> NoResult]
handleBuildError(kind) ==
    [pc |-> "send",
     val |-> IF kind = "server" THEN [html |-> "", css |-> "", err |-> "build"]
             ELSE [js |-> "", dependencies |-> <<>>, err |-> "build"]]

\* doRender from `js := injectProps(build.JS, rt.props)` on: the server branch goes
\* on to run the script, the client branch sends its result
WithBuild(t, kind, build) ==
    IF kind = "server"
    THEN [pc |-> "exec", loc |-> [build |-> build, val |-> NoResult]]
    ELSE [pc |-> "send",
          loc |-> [build |-> NoBuild,
                   val |-> [js |-> injectProps(build.JS, Props(t)),
                            dependencies |-> build.Dependencies, err |-> "nil"]]]

\* no branch is between reading the cache and writing its build to it
CacheQuiet ==
    \A t \in Tasks, k \in Kinds : bpc[t][k] \in {"none", "exec", "send", "done"}

RenderFrame == UNCHANGED <<backend, redisVars, callVars, storeVars, poolVars, spa>>

\* Engine.RenderRoute / renderTask.Start up to the first receive
Render_Start(t) ==
    /\ opc[t] = "idle"
    /\ reactFiles' = MapSet(reactFiles, generateRouteID(TaskFile(t)), TaskFile(t))
    /\ bpc' = [bpc EXCEPT ![t] = [k \in Kinds |-> "begin"]]
    /\ opc' = [opc EXCEPT ![t] = "recv_server"]
    /\ started' = Append(started, t)
    /\ fresh' = [fresh EXCEPT ![t] = /\ hpc = "idle"
                                     /\ inval.ok
                                     /\ inval.n = Len(started)
                                     /\ TaskFile(t) \in inval.parents]
    /\ UNCHANGED <<serverBuilds, clientBuilds, dependencies, parents, oloc, bloc, result,
                   wpc, wloc, hpc, hloc, nevents, bundled, delivered, inval>>
    /\ RenderFrame

\* doRender: clientRenderResult{js: rt.engine.CachedClientSPAJS, dependencies: nil}
SPAClientResult_Deps == [js |-> CachedClientSPAJS, dependencies |-> <<"B">>, err |-> "nil"]
SPAClientResult == [js |-> CachedClientSPAJS, dependencies |-> <<>>, err |-> "nil"]

\* doRender: buildType == "client" && rt.engine.CachedClientSPAJS != ""
UseCachedSPA_Never(kind) == FALSE
UseCachedSPA(kind) == kind = "client" /\ spa

\* doRender: the SPA short-circuit, or getBuildFromCache
Render_doRender_Get(t, kind) ==
    /\ bpc[t][kind] = "begin"
    /\ IF UseCachedSPA(kind)
       THEN /\ bpc' = [bpc EXCEPT ![t][kind] = "send"]
            /\ bloc' = [bloc EXCEPT ![t][kind].val = SPAClientResult]
       ELSE LET o == IF kind = "server" THEN LocalCache_GetServerBuild(TaskFile(t))
                     ELSE LocalCache_GetClientBuild(TaskFile(t))
            IN  IF o.ok
                THEN /\ bpc' = [bpc EXCEPT ![t][kind] = WithBuild(t, kind, o.build).pc]
                     /\ bloc' = [bloc EXCEPT ![t][kind] = WithBuild(t, kind, o.build).loc]
                ELSE /\ bpc' = [bpc EXCEPT ![t][kind] = "build"]
                     /\ UNCHANGED bloc
    /\ UNCHANGED <<cacheVars, opc, oloc, result, wpc, wloc, hpc, hloc, nevents,
                   started, bundled, delivered, fresh, inval>>
    /\ RenderFrame

\* doRender: buildFile, and handleBuildError when it fails
Render_doRender_Build(t, kind) ==
    /\ bpc[t][kind] = "build"
    /\ bundled' = [bundled EXCEPT ![t] = @ \cup {kind}]
    /\ \E newBuild \in BuildResults \cup {BuildFailed} :
          IF newBuild = BuildFailed
          THEN /\ bpc' = [bpc EXCEPT ![t][kind] = handleBuildError(kind).pc]
               /\ bloc' = [bloc EXCEPT ![t][kind].val = handleBuildError(kind).val]
          ELSE /\ bpc' = [bpc EXCEPT ![t][kind] = "update"]
               /\ bloc' = [bloc EXCEPT ![t][kind].build = newBuild]
    /\ UNCHANGED <<cacheVars, opc, oloc, result, wpc, wloc, hpc, hloc, nevents,
                   started, delivered, fresh, inval>>
    /\ RenderFrame

\* doRender: updateBuildCache, then build = newBuild
Render_doRender_Update(t, kind) ==
    /\ bpc[t][kind] = "update"
    /\ IF kind = "server"
       THEN /\ serverBuilds' = LocalCache_SetServerBuild(serverBuilds, TaskFile(t),
                                                         bloc[t][kind].build)
            /\ UNCHANGED clientBuilds
       ELSE /\ clientBuilds' = LocalCache_SetClientBuild(clientBuilds, TaskFile(t),
                                                         bloc[t][kind].build)
            /\ UNCHANGED serverBuilds
    /\ bpc' = [bpc EXCEPT ![t][kind] = WithBuild(t, kind, bloc[t][kind].build).pc]
    /\ bloc' = [bloc EXCEPT ![t][kind] = WithBuild(t, kind, bloc[t][kind].build).loc]
    /\ UNCHANGED <<reactFiles, dependencies, parents, opc, oloc, result, wpc, wloc,
                   hpc, hloc, nevents, started, bundled, delivered, fresh, inval>>
    /\ RenderFrame

\* doRender("server"): renderReactToHTML returns the html or an error
Render_doRender_Exec(t) ==
    /\ bpc[t]["server"] = "exec"
    /\ LET build == bloc[t]["server"].build
           js == injectProps(build.JS, Props(t))
       IN  \E ok \in BOOLEAN :
              bloc' = [bloc EXCEPT ![t]["server"] =
                          [build |-> NoBuild,
                           val |-> IF ok
                                   THEN [html |-> RenderedHTML(js), css |-> build.CSS,
                                         err |-> "nil"]
                                   ELSE [html |-> "", css |-> build.CSS, err |-> "exec"]]]
    /\ bpc' = [bpc EXCEPT ![t]["server"] = "send"]
    /\ UNCHANGED <<cacheVars, opc, oloc, result, wpc, wloc, hpc, hloc, nevents,
                   started, bundled, delivered, fresh, inval>>
    /\ RenderFrame

\* Start after srResult := <-rt.serverRenderResult: return the error with empty
\* strings, or go on to receive the client result
Start_afterServer_Wait(srResult) ==
    [pc |-> "recv_client", result |-> NoResult]
Start_afterServer(srResult) ==
    IF srResult.err # "nil"
    THEN [pc |-> "done", result |-> [html |-> "", css |-> "", js |-> "", err |-> srResult.err]]
    ELSE [pc |-> "recv_client", result |-> NoResult]

\* the list Start's goroutine passes to SetParentFileDependencies
WriteBackList_None(crResult) == <<>>
WriteBackList(crResult) == crResult.dependencies

\* Start: srResult := <-rt.serverRenderResult, and the return on its error
Render_Start_RecvServer(t) ==
    /\ opc[t] = "recv_server"
    /\ bpc[t]["server"] = "send"
    /\ LET srResult == bloc[t]["server"].val
           next == Start_afterServer(srResult)
       IN  IF next.pc = "done"
           THEN /\ result' = [result EXCEPT ![t] = next.result]
                /\ opc' = [opc EXCEPT ![t] = "done"]
                /\ UNCHANGED oloc
           ELSE /\ oloc' = [oloc EXCEPT ![t] = srResult]
                /\ opc' = [opc EXCEPT ![t] = "recv_client"]
                /\ UNCHANGED result
    /\ bpc' = [bpc EXCEPT ![t]["server"] = "done"]
    /\ bloc' = [bloc EXCEPT ![t]["server"] = NoBranch]
    /\ delivered' = [delivered EXCEPT ![t]["server"] = @ + 1]
    /\ UNCHANGED <<cacheVars, wpc, wloc, hpc, hloc, nevents, started, bundled,
                   fresh, inval>>
    /\ RenderFrame

\* Start: crResult := <-rt.clientRenderResult, the return on its error, else the
\* write-back goroutine and the return of the triple
Render_Start_RecvClient(t) ==
    /\ opc[t] = "recv_client"
    /\ bpc[t]["client"] = "send"
    /\ LET crResult == bloc[t]["client"].val
       IN  IF crResult.err # "nil"
           THEN /\ result' = [result EXCEPT ![t] =
                                 [html |-> "", css |-> "", js |-> "", err |-> crResult.err]]
                /\ UNCHANGED <<wpc, wloc>>
           ELSE /\ result' = [result EXCEPT ![t] =
                                 [html |-> oloc[t].html, css |-> oloc[t].css,
                                  js |-> crResult.js, err |-> "nil"]]
                /\ wpc' = [wpc EXCEPT ![t] = "forward"]
                /\ wloc' = [wloc EXCEPT ![t].deps = WriteBackList(crResult)]
    /\ opc' = [opc EXCEPT ![t] = "done"]
    /\ oloc' = [oloc EXCEPT ![t] = NoResult]
    /\ bpc' = [bpc EXCEPT ![t]["client"] = "done"]
    /\ bloc' = [bloc EXCEPT ![t]["client"] = NoBranch]
    /\ delivered' = [delivered EXCEPT ![t]["client"] = @ + 1]
    /\ UNCHANGED <<cacheVars, hpc, hloc, nevents, started, bundled, fresh, inval>>
    /\ RenderFrame

\* the write-back goroutine: SetParentFileDependencies, forward map
Render_WriteBack_Forward(t) ==
    /\ wpc[t] = "forward"
    /\ LET filePath == TaskFile(t)
           oldDeps == IF filePath \in DOMAIN dependencies
                      THEN dependencies[filePath] ELSE <<>>
       IN  /\ dependencies' = MapSet(dependencies, filePath, wloc[t].deps)
           /\ wloc' = [wloc EXCEPT ![t].oldDeps = oldDeps]
    /\ wpc' = [wpc EXCEPT ![t] = "reverse"]
    /\ UNCHANGED <<serverBuilds, clientBuilds, reactFiles, parents, opc, oloc, bpc, bloc,
                   result, hpc, hloc, nevents, started, bundled, delivered, fresh, inval>>
    /\ RenderFrame

\* the write-back goroutine: SetParentFileDependencies, reverse map
Render_WriteBack_Reverse(t) ==
    /\ wpc[t] = "reverse"
    /\ parents' = AddNewReverse(RemoveOldReverse(parents, wloc[t].oldDeps, TaskFile(t)),
                                wloc[t].deps, TaskFile(t))
    /\ wpc' = [wpc EXCEPT ![t] = "done"]
    /\ wloc' = [wloc EXCEPT ![t] = NoLoc]
    /\ UNCHANGED <<serverBuilds, clientBuilds, reactFiles, dependencies, opc, oloc, bpc,
                   bloc, result, hpc, hloc, nevents, started, bundled, delivered, fresh,
                   inval>>
    /\ RenderFrame

\* ---- route records and the routes of a file ----
RouteIDs == {"r1", "r2"}

RECURSIVE SeqOf(_)
SeqOf(S) == IF S = {} THEN <<>>
            ELSE LET x == CHOOSE y \in S : TRUE IN <<x>> \o SeqOf(S \ {x})

\* the route records, whichever backend holds them
RouteRecords == IF backend = "local" THEN reactFiles ELSE redisRoutes

\* GetRouteIDSForParentFile: the routes whose record is filePath
GetRouteIDSForParentFile(filePath) ==
    SeqOf({route \in DOMAIN RouteRecords : RouteRecords[route] = filePath})

\* GetRouteIDSWithFile: if len(reactFilesWithDependency) == 0, the file itself
ParentsOrSelf_NoSelf(reactFilesWithDependency, filePath) == reactFilesWithDependency
ParentsOrSelf(reactFilesWithDependency, filePath) ==
    IF Len(reactFilesWithDependency) = 0 THEN <<filePath>> ELSE reactFilesWithDependency

\* GetRouteIDSWithFile: routeIDS = append(routeIDS, routes...) for each reactFile
RECURSIVE AppendRoutes(_, _)
AppendRoutes(routeIDS, reactFiles_) ==
    IF reactFiles_ = <<>> THEN routeIDS
    ELSE AppendRoutes(routeIDS \o GetRouteIDSForParentFile(Head(reactFiles_)),
                      Tail(reactFiles_))

GetRouteIDSWithFile(filePath) ==
    AppendRoutes(<<>>, ParentsOrSelf(SeqOf(GetParentFilesFromDependency(filePath)), filePath))

(***************************************************************************)
(* HotReload.startWatcher: for a file event, the parent files of the file  *)
(* are read from the reverse index and the server and the client build of  *)
(* each are removed, one cache call at a time.                             *)
(***************************************************************************)
WatchedFiles == {"A", "B"}

\* the loop is over: what it removed, and whether any render ran meanwhile
\* (broadcastFileUpdateToClients is given the route IDs read at the event)
LoopDone(h) ==
    [ok |-> h.quiet /\ Len(started) = h.n, n |-> h.n, parents |-> h.all,
     file |-> h.file, routes |-> h.routes, built |-> h.built]

\* the branches that hold a build the Bundler returned and have not yet passed it
\* to updateBuildCache
BuiltNotStored == {b \in Tasks \X Kinds : bpc[b[1]][b[2]] = "update"}

\* the parent files whose builds the loop removes
InvalidationTargets_OrSelf(filePath) ==
    IF LocalCache_GetParentFilesFromDependency(filePath) = {} THEN {filePath}
    ELSE LocalCache_GetParentFilesFromDependency(filePath)
InvalidationTargets(filePath) == LocalCache_GetParentFilesFromDependency(filePath)

Watcher_Event(filePath) ==
    /\ hpc = "idle"
    /\ nevents < MaxCalls
    /\ nevents' = nevents + 1
    /\ LET routeIDS == Range(GetRouteIDSWithFile(filePath))
           parentFiles == InvalidationTargets(filePath)
           h == [file |-> filePath, routes |-> routeIDS, left |-> parentFiles, cur |-> "",
                 all |-> parentFiles, n |-> Len(started), quiet |-> CacheQuiet,
                 built |-> IF parentFiles = {} THEN {} ELSE BuiltNotStored]
       IN  IF parentFiles = {}
           THEN /\ inval' = LoopDone(h)
                /\ UNCHANGED <<hpc, hloc>>
           ELSE /\ hloc' = h
                /\ hpc' = "rm_server"
                /\ UNCHANGED inval
    /\ UNCHANGED <<cacheVars, opc, oloc, bpc, bloc, result, wpc, wloc, started, bundled,
                   delivered, fresh>>
    /\ RenderFrame

Watcher_RemoveServerBuild ==
    /\ hpc = "rm_server"
    /\ \E parentFile \in hloc.left :
          /\ serverBuilds' = LocalCache_RemoveServerBuild(serverBuilds, parentFile)
          /\ hloc' = [hloc EXCEPT !.cur = parentFile]
    /\ hpc' = "rm_client"
    /\ UNCHANGED <<clientBuilds, reactFiles, dependencies, parents, opc, oloc, bpc, bloc,
                   result, wpc, wloc, nevents, started, bundled, delivered, fresh, inval>>
    /\ RenderFrame

Watcher_RemoveClientBuild ==
    /\ hpc = "rm_client"
    /\ clientBuilds' = LocalCache_RemoveClientBuild(clientBuilds, hloc.cur)
    /\ IF hloc.left \ {hloc.cur} = {}
       THEN /\ inval' = LoopDone(hloc)
            /\ hloc' = NoWatch
            /\ hpc' = "idle"
       ELSE /\ hloc' = [hloc EXCEPT !.left = @ \ {hloc.cur}, !.cur = ""]
            /\ hpc' = "rm_server"
            /\ UNCHANGED inval
    /\ UNCHANGED <<serverBuilds, reactFiles, dependencies, parents, opc, oloc, bpc, bloc,
                   result, wpc, wloc, nevents, started, bundled, delivered, fresh>>
    /\ RenderFrame

(***************************************************************************)
(* RenderSpec: render requests for one root and the watcher; RenderFairSpec*)
(* adds that every goroutine of a started render keeps taking its steps    *)
(* (the Bundler and the engine return).                                    *)
(***************************************************************************)
RenderInit ==
    /\ backend = "local"
    /\ rootOf = [p \in CProcs |-> "A"]
    /\ InitCache
    /\ InitCalls
    /\ InitStore
    /\ InitPool
    /\ InitTasks
    /\ spa \in BOOLEAN

RenderNext ==
    \/ \E t \in Tasks :
          \/ Render_Start(t)
          \/ \E kind \in Kinds :
                \/ Render_doRender_Get(t, kind)
                \/ Render_doRender_Build(t, kind)
                \/ Render_doRender_Update(t, kind)
          \/ Render_doRender_Exec(t)
          \/ Render_Start_RecvServer(t)
          \/ Render_Start_RecvClient(t)
          \/ Render_WriteBack_Forward(t)
          \/ Render_WriteBack_Reverse(t)
    \/ \E filePath \in WatchedFiles : Watcher_Event(filePath)
    \/ Watcher_RemoveServerBuild
    \/ Watcher_RemoveClientBuild

RenderSpec == RenderInit /\ [][RenderNext]_vars

\* a step of a goroutine of a render that has started
RenderStep ==
    \E t \in Tasks :
        \/ \E kind \in Kinds :
              \/ Render_doRender_Get(t, kind)
              \/ Render_doRender_Build(t, kind)
              \/ Render_doRender_Update(t, kind)
        \/ Render_doRender_Exec(t)
        \/ Render_Start_RecvServer(t)
        \/ Render_Start_RecvClient(t)
        \/ Render_WriteBack_Forward(t)
        \/ Render_WriteBack_Reverse(t)

\* the goroutines of a render are finitely many steps each, so that a runnable one
\* is eventually scheduled is: some step is taken while one is possible
RenderFairness == WF_vars(RenderStep)

\* the renders alone, with no file event
RenderTaskNext ==
    \/ \E t \in Tasks : Render_Start(t)
    \/ RenderStep

RenderFairSpec == RenderInit /\ [][RenderTaskNext]_vars /\ RenderFairness

(***************************************************************************)
(* A render with the Redis backend: the same Start and doRender, each      *)
(* cache call one Redis command that runs on the server or fails with a    *)
(* connection error.  The store is shared with other processes and outlives*)
(* them, so a render may find what an earlier one left.                    *)
(***************************************************************************)
MaxRenderFaults == 3
RedisTasks == {1}

RenderCanFail == faults < MaxRenderFaults

\* bytes under a build key that are not a BuildResult
Malformed == [json |-> "garbage"]

\* what the store may hold when the process starts: nothing, a server build key with
\* malformed bytes, a client build an earlier process stored, or the dependencies an
\* earlier render of the root registered
RedisLeftovers ==
    {[strings |-> EmptyMap, sets |-> EmptyMap],
     [strings |-> MapSet(EmptyMap, ServerKey("A"), Malformed), sets |-> EmptyMap],
     [strings |-> MapSet(EmptyMap, ClientKey("A"),
                         JSONMarshalBuild([JS |-> "js1", CSS |-> "css1",
                                           Dependencies |-> <<>>])),
      sets |-> EmptyMap],
     [strings |-> MapSet(EmptyMap, DepsKey("A"), JSONMarshalStrings(<<"C">>)),
      sets |-> MapSet(EmptyMap, RevKey("C"), {"A"})]}

RedisCache_GetBuild(kind, filePath) ==
    IF kind = "server" THEN RedisCache_GetServerBuild(filePath)
    ELSE RedisCache_GetClientBuild(filePath)

RedisCache_SetBuild(strs, kind, filePath, build) ==
    IF kind = "server" THEN RedisCache_SetServerBuild(strs, filePath, build)
    ELSE RedisCache_SetClientBuild(strs, filePath, build)

\* doRender after getBuildFromCache returned o: the error is logged; found goes on
\* with the build, not found goes to buildFile
AfterGetBuild_Surface(t, kind, o) ==
    IF o.err THEN [pc |-> "send", loc |-> [build |-> NoBuild, val |-> handleBuildError(kind).val]]
    ELSE IF o.ok THEN WithBuild(t, kind, o.build)
    ELSE [pc |-> "build", loc |-> bloc[t][kind]]
AfterGetBuild(t, kind, o) ==
    IF o.ok THEN WithBuild(t, kind, o.build)
    ELSE [pc |-> "build", loc |-> bloc[t][kind]]

\* doRender after updateBuildCache: its error is logged, build = newBuild
AfterUpdate_Fatal(t, kind, failed) ==
    IF failed
    THEN [pc |-> "send", loc |-> [build |-> NoBuild, val |-> handleBuildError(kind).val]]
    ELSE WithBuild(t, kind, bloc[t][kind].build)
AfterUpdate(t, kind, failed) == WithBuild(t, kind, bloc[t][kind].build)

RedisRenderFrame ==
    UNCHANGED <<backend, cacheVars, callVars, storeVars, poolVars, spa, hpc, hloc,
                nevents, fresh, inval>>

\* Start up to the first receive: SetParentFile is HSET routes routeID filePath
RedisRender_Start(t) ==
    /\ backend = "redis"
    /\ opc[t] = "idle"
    /\ \/ /\ redisRoutes' = MapSet(redisRoutes, generateRouteID(TaskFile(t)), TaskFile(t))
          /\ UNCHANGED faults
       \/ /\ RenderCanFail                                  \* logged
          /\ Fault
          /\ UNCHANGED redisRoutes
    /\ bpc' = [bpc EXCEPT ![t] = [k \in Kinds |-> "begin"]]
    /\ opc' = [opc EXCEPT ![t] = "recv_server"]
    /\ started' = Append(started, t)
    /\ UNCHANGED <<redisStrings, redisSets, oloc, bloc, result, wpc, wloc, bundled,
                   delivered>>
    /\ RedisRenderFrame

\* doRender: the SPA short-circuit, or getBuildFromCache (GET and json.Unmarshal)
RedisRender_doRender_Get(t, kind) ==
    /\ backend = "redis"
    /\ bpc[t][kind] = "begin"
    /\ IF UseCachedSPA(kind)
       THEN /\ bpc' = [bpc EXCEPT ![t][kind] = "send"]
            /\ bloc' = [bloc EXCEPT ![t][kind].val = SPAClientResult]
            /\ UNCHANGED faults
       ELSE \/ LET next == AfterGetBuild(t, kind, RedisCache_GetBuild(kind, TaskFile(t)))
               IN  /\ bpc' = [bpc EXCEPT ![t][kind] = next.pc]
                   /\ bloc' = [bloc EXCEPT ![t][kind] = next.loc]
                   /\ UNCHANGED faults
            \/ LET next == AfterGetBuild(t, kind, RedisGetFailed)
               IN  /\ RenderCanFail
                   /\ Fault
                   /\ bpc' = [bpc EXCEPT ![t][kind] = next.pc]
                   /\ bloc' = [bloc EXCEPT ![t][kind] = next.loc]
    /\ UNCHANGED <<redisStrings, redisRoutes, redisSets, opc, oloc, result, wpc, wloc,
                   started, bundled, delivered>>
    /\ RedisRenderFrame

\* doRender: updateBuildCache (json.Marshal and SET), then build = newBuild
RedisRender_doRender_Update(t, kind) ==
    /\ backend = "redis"
    /\ bpc[t][kind] = "update"
    /\ \/ LET next == AfterUpdate(t, kind, FALSE)
          IN  /\ redisStrings' = RedisCache_SetBuild(redisStrings, kind, TaskFile(t),
                                                     bloc[t][kind].build)
              /\ UNCHANGED faults
              /\ bpc' = [bpc EXCEPT ![t][kind] = next.pc]
              /\ bloc' = [bloc EXCEPT ![t][kind] = next.loc]
       \/ LET next == AfterUpdate(t, kind, TRUE)
          IN  /\ RenderCanFail                              \* logged
              /\ Fault
              /\ UNCHANGED redisStrings
              /\ bpc' = [bpc EXCEPT ![t][kind] = next.pc]
              /\ bloc' = [bloc EXCEPT ![t][kind] = next.loc]
    /\ UNCHANGED <<redisRoutes, redisSets, opc, oloc, result, wpc, wloc, started,
                   bundled, delivered>>
    /\ RedisRenderFrame

\* the write-back goroutine: RedisCache.SetParentFileDependencies, the GET
RedisRender_WriteBack_Get(t) ==
    /\ backend = "redis"
    /\ wpc[t] = "forward"
    /\ \/ /\ DepsKey(TaskFile(t)) \in DOMAIN redisStrings
          /\ LET oldDeps == JSONUnmarshalStrings(redisStrings[DepsKey(TaskFile(t))]).v
             IN  /\ wloc' = [wloc EXCEPT ![t] = [deps |-> wloc[t].deps, oldDeps |-> oldDeps,
                                                 i |-> 1]]
                 /\ wpc' = [wpc EXCEPT ![t] = AfterGet(oldDeps)]
          /\ UNCHANGED faults
       \/ /\ DepsKey(TaskFile(t)) \notin DOMAIN redisStrings     \* redis.Nil
          /\ wloc' = [wloc EXCEPT ![t] = [deps |-> wloc[t].deps, oldDeps |-> <<>>, i |-> 1]]
          /\ wpc' = [wpc EXCEPT ![t] = "r_set"]
          /\ UNCHANGED faults
       \/ /\ RenderCanFail                                       \* err != nil, ignored
          /\ Fault
          /\ wloc' = [wloc EXCEPT ![t] = [deps |-> wloc[t].deps, oldDeps |-> <<>>, i |-> 1]]
          /\ wpc' = [wpc EXCEPT ![t] = "r_set"]
    /\ UNCHANGED <<redisStrings, redisRoutes, redisSets, opc, oloc, bpc, bloc, result,
                   started, bundled, delivered>>
    /\ RedisRenderFrame

\* the write-back goroutine: SREM of the root from one old dependency's set
RedisRender_WriteBack_SRem(t) ==
    /\ backend = "redis"
    /\ wpc[t] = "r_srem"
    /\ LET dep == wloc[t].oldDeps[wloc[t].i]
       IN  \/ /\ redisSets' = SRem(redisSets, RevKey(dep), TaskFile(t))
              /\ UNCHANGED faults
           \/ /\ RenderCanFail                                   \* the error is dropped
              /\ Fault
              /\ UNCHANGED redisSets
    /\ wloc' = [wloc EXCEPT ![t].i = IF @ < Len(wloc[t].oldDeps) THEN @ + 1 ELSE 1]
    /\ wpc' = [wpc EXCEPT ![t] = IF wloc[t].i < Len(wloc[t].oldDeps) THEN "r_srem"
                                  ELSE "r_set"]
    /\ UNCHANGED <<redisStrings, redisRoutes, opc, oloc, bpc, bloc, result, started,
                   bundled, delivered>>
    /\ RedisRenderFrame

\* the write-back goroutine: SET of the forward list; its error ends the call
RedisRender_WriteBack_Set(t) ==
    /\ backend = "redis"
    /\ wpc[t] = "r_set"
    /\ \/ /\ redisStrings' = MapSet(redisStrings, DepsKey(TaskFile(t)),
                                    JSONMarshalStrings(wloc[t].deps))
          /\ UNCHANGED faults
          /\ IF Len(wloc[t].deps) > 0
             THEN /\ wpc' = [wpc EXCEPT ![t] = "r_sadd"]
                  /\ UNCHANGED wloc
             ELSE /\ wpc' = [wpc EXCEPT ![t] = "done"]
                  /\ wloc' = [wloc EXCEPT ![t] = NoLoc]
       \/ /\ RenderCanFail                                       \* return err, logged
          /\ Fault
          /\ UNCHANGED redisStrings
          /\ wpc' = [wpc EXCEPT ![t] = "done"]
          /\ wloc' = [wloc EXCEPT ![t] = NoLoc]
    /\ UNCHANGED <<redisRoutes, redisSets, opc, oloc, bpc, bloc, result, started,
                   bundled, delivered>>
    /\ RedisRenderFrame

\* the write-back goroutine: SADD of the root to one new dependency's set
RedisRender_WriteBack_SAdd(t) ==
    /\ backend = "redis"
    /\ wpc[t] = "r_sadd"
    /\ \/ /\ redisSets' = SAdd(redisSets, RevKey(wloc[t].deps[wloc[t].i]), TaskFile(t))
          /\ UNCHANGED faults
          /\ IF wloc[t].i < Len(wloc[t].deps)
             THEN /\ wloc' = [wloc EXCEPT ![t].i = @ + 1]
                  /\ UNCHANGED wpc
             ELSE /\ wpc' = [wpc EXCEPT ![t] = "done"]
                  /\ wloc' = [wloc EXCEPT ![t] = NoLoc]
       \/ /\ RenderCanFail                                       \* return err, logged
          /\ Fault
          /\ UNCHANGED redisSets
          /\ wpc' = [wpc EXCEPT ![t] = "done"]
          /\ wloc' = [wloc EXCEPT ![t] = NoLoc]
    /\ UNCHANGED <<redisStrings, redisRoutes, opc, oloc, bpc, bloc, result, started,
                   bundled, delivered>>
    /\ RedisRenderFrame

RedisRenderInit ==
    /\ backend = "redis"
    /\ rootOf = [p \in CProcs |-> "A"]
    /\ serverBuilds = EmptyMap
    /\ clientBuilds = EmptyMap
    /\ reactFiles = EmptyMap
    /\ dependencies = EmptyMap
    /\ parents = EmptyMap
    /\ \E left \in RedisLeftovers :
          /\ redisStrings = left.strings
          /\ redisSets = left.sets
    /\ redisRoutes = EmptyMap
    /\ faults = 0
    /\ InitCalls
    /\ InitStore
    /\ InitPool
    /\ InitTasks
    /\ spa \in BOOLEAN

RedisRenderNext ==
    \E t \in RedisTasks :
        \/ RedisRender_Start(t)
        \/ \E kind \in Kinds :
              \/ RedisRender_doRender_Get(t, kind)
              \/ Render_doRender_Build(t, kind)
              \/ RedisRender_doRender_Update(t, kind)
        \/ Render_doRender_Exec(t)
        \/ Render_Start_RecvServer(t)
        \/ Render_Start_RecvClient(t)
        \/ RedisRender_WriteBack_Get(t)
        \/ RedisRender_WriteBack_SRem(t)
        \/ RedisRender_WriteBack_Set(t)
        \/ RedisRender_WriteBack_SAdd(t)

RedisRenderSpec == RedisRenderInit /\ [][RedisRenderNext]_vars

RenderTypeOK == \A t \in Tasks : opc[t] \in {"idle", "recv_server", "recv_client", "done"}

LastStarted(t) == Len(started) > 0 /\ started[Len(started)] = t

\* C4: when the invalidation loop for an edited file has run to its end with no
\* render touching the cache meanwhile, neither the server nor the client build of
\* any root it read from the reverse index of that file is cached any more (until a
\* render starts); and the next render of such a root, while no other render has
\* started after it, finds no cached build: each of its branches that is past its
\* cache lookup is about to call the Bundler or has called it.
C4_InvalidationForcesRebuild ==
    /\ (hpc = "idle" /\ inval.ok /\ inval.n = Len(started)) =>
          \A parentFile \in inval.parents :
              /\ ~LocalCache_GetServerBuild(parentFile).ok
              /\ ~LocalCache_GetClientBuild(parentFile).ok
    /\ \A t \in Tasks :
          (fresh[t] /\ LastStarted(t)) =>
              \A kind \in Kinds :
                  bpc[t][kind] # "begin" => bpc[t][kind] = "build" \/ kind \in bundled[t]

\* root A was rendered and its list with B written back, an event for B removed
\* A's builds, and the next render of A has returned after building both kinds anew
C4_Witness ==
    \E t \in Tasks :
        /\ fresh[t] /\ LastStarted(t)
        /\ "A" \in inval.parents
        /\ "B" \in ForwardDeps("A") /\ "A" \in GetParentFilesFromDependency("B")
        /\ opc[t] = "done" /\ result[t].err = "nil"
        /\ bundled[t] = Kinds
        /\ LocalCache_GetServerBuild("A").ok /\ LocalCache_GetClientBuild("A").ok

\* C6: in every execution of a render both branches eventually terminate: a branch
\* that has begun reaches the end of doRender, none stays at its send forever, also
\* when Start returned early on the server branch's error.
C6_BranchesTerminate ==
    \A t \in Tasks, kind \in Kinds : (bpc[t][kind] = "begin") ~> (bpc[t][kind] = "done")

\* C7: every render that has started eventually returns to its caller, with an
\* error and an empty triple or with the triple and no error; the server branch
\* delivers exactly one result by then and the client branch never more than one.
C7_RenderReturns ==
    /\ [](\A t \in Tasks :
             /\ delivered[t]["server"] <= 1
             /\ delivered[t]["client"] <= 1
             /\ opc[t] = "done" =>
                   /\ delivered[t]["server"] = 1
                   /\ result[t].err # "none"
                   /\ result[t].err # "nil" =>
                         result[t].html = "" /\ result[t].css = "" /\ result[t].js = "")
    /\ \A t \in Tasks : (opc[t] # "idle") ~> (opc[t] = "done")

\* one render returned the triple, the other returned an error after its build
\* failed
C7_Witness ==
    \E t, u \in Tasks :
        /\ opc[t] = "done" /\ result[t].err = "nil" /\ delivered[t]["client"] = 1
        /\ opc[u] = "done" /\ result[u].err = "build"

\* the step of branch (t, kind) in which buildFile returns an error
BundlerFails(t, kind) ==
    /\ bpc[t][kind] = "build"
    /\ bpc'[t][kind] # "build"
    /\ bloc'[t][kind].build \notin BuildResults

\* C15: when the Bundler fails for a branch, that step writes nothing to the cache and
\* the branch goes on to send the error only (no updateBuildCache); every step of a
\* branch other than updateBuildCache leaves the stored artifacts as they are; and a
\* render that returned an error never starts the dependency write-back.
C15_FailedBuildWritesNothing ==
    /\ [][\A t \in Tasks, kind \in Kinds :
             BundlerFails(t, kind) =>
                 /\ UNCHANGED <<serverBuilds, clientBuilds, reactFiles, dependencies, parents>>
                 /\ bpc'[t][kind] = "send"
                 /\ bloc'[t][kind].val.err = "build"]_vars
    /\ [][\A t \in Tasks, kind \in Kinds :
             (bpc[t][kind] \notin {"none", "update"} /\ bpc'[t][kind] # bpc[t][kind]) =>
                 UNCHANGED <<serverBuilds, clientBuilds>>]_vars
    /\ [](\A t \in Tasks :
             (opc[t] = "done" /\ result[t].err # "nil") =>
                 /\ wpc[t] = "none"
                 /\ result[t].html = "" /\ result[t].css = "" /\ result[t].js = "")

C15_Witness ==
    \E t \in Tasks :
        /\ opc[t] = "done" /\ result[t].err = "build"
        /\ "server" \in bundled[t]
        /\ TaskFile(t) \notin DOMAIN serverBuilds
        /\ TaskFile(t) \notin DOMAIN dependencies
        /\ wpc[t] = "none"

\* a render other than u has returned its triple and no file event has been handled
ReturnedBefore(u) ==
    /\ nevents = 0
    /\ \E t \in Tasks \ {u} : opc[t] = "done" /\ result[t].err = "nil"

\* the script text for a payload and a cached script, written out
PayloadThenCode(props, compiledJS) == <<"var props = ", props, "; ", compiledJS>>

\* C16: a stored artifact is always one the Bundler returned, never one with a payload
\* in it; once a render of the route has returned its triple (and no invalidation has
\* run), every cache lookup of another render of the route is a hit, so that render
\* goes on without buildFile or updateBuildCache and the stored artifacts stay as they
\* are; the script a branch hands on is the payload assignment followed by the cached
\* script, so the results of two renders that used the same cached artifacts differ in
\* the payload only.
C16_PayloadNotCached ==
    /\ [](/\ \A f \in DOMAIN serverBuilds : serverBuilds[f] \in BuildResults
          /\ \A f \in DOMAIN clientBuilds : clientBuilds[f] \in BuildResults)
    /\ [][\A u \in Tasks, kind \in Kinds :
             (ReturnedBefore(u) /\ bpc[u][kind] = "begin" /\ bpc'[u][kind] # "begin") =>
                 /\ bpc'[u][kind] \in {"exec", "send"}
                 /\ UNCHANGED <<serverBuilds, clientBuilds>>]_vars
    /\ [](\A t \in Tasks : \A u \in Tasks \ {t} :
             (/\ nevents = 0
              /\ opc[t] = "done" /\ result[t].err = "nil"
              /\ opc[u] = "done" /\ result[u].err = "nil"
              /\ bundled[u] = {}) =>
                 /\ TaskFile(u) \in DOMAIN serverBuilds
                 /\ \A x \in {t, u} :
                       result[x].html = RenderedHTML(PayloadThenCode(Props(x),
                                                   serverBuilds[TaskFile(u)].JS))
                 /\ IF spa
                    THEN result[t].js = CachedClientSPAJS /\ result[u].js = CachedClientSPAJS
                    ELSE /\ TaskFile(u) \in DOMAIN clientBuilds
                         /\ \A x \in {t, u} :
                               result[x].js = PayloadThenCode(Props(x),
                                                  clientBuilds[TaskFile(u)].JS))

C16_Witness ==
    \E t \in Tasks : \E u \in Tasks \ {t} :
        /\ nevents = 0 /\ ~spa
        /\ opc[t] = "done" /\ result[t].err = "nil" /\ bundled[t] = Kinds
        /\ opc[u] = "done" /\ result[u].err = "nil" /\ bundled[u] = {}
        /\ result[t].html # result[u].html
        /\ result[t].js # result[u].js

\* what Start returns with an error: no markup, no stylesheet, no script
ErrorOnly(err) == [html |-> "", css |-> "", js |-> "", err |-> err]

\* C17: at the join a server-branch error (build or execution) is returned at once
\* with empty markup, stylesheet and script, wherever the client branch is and whatever
\* it has to send; the client result is looked at only after a server result without
\* error, and its error is then returned with empty strings; a render that returned
\* an error returned no markup, stylesheet or script with it.
C17_JoinErrors ==
    /\ [][\A t \in Tasks :
             (opc[t] = "recv_server" /\ opc'[t] # "recv_server") =>
                 LET srResult == bloc[t]["server"].val
                 IN  IF srResult.err # "nil"
                     THEN /\ opc'[t] = "done"
                          /\ result'[t] = ErrorOnly(srResult.err)
                          /\ bpc'[t]["client"] = bpc[t]["client"]
                     ELSE /\ opc'[t] = "recv_client"
                          /\ result'[t] = result[t]]_vars
    /\ [][\A t \in Tasks :
             (opc[t] = "recv_client" /\ opc'[t] # "recv_client") =>
                 LET crResult == bloc[t]["client"].val
                 IN  /\ oloc[t].err = "nil"
                     /\ opc'[t] = "done"
                     /\ result'[t] = IF crResult.err # "nil"
                                     THEN ErrorOnly(crResult.err)
                                     ELSE [html |-> oloc[t].html, css |-> oloc[t].css,
                                           js |-> crResult.js, err |-> "nil"]]_vars
    /\ [](\A t \in Tasks :
             opc[t] = "done" =>
                 /\ result[t].err \in {"nil", "build", "exec"}
                 /\ result[t].err # "nil" => result[t] = ErrorOnly(result[t].err)
                 /\ result[t].err = "exec" => delivered[t] = [k \in Kinds |->
                                                 IF k = "server" THEN 1 ELSE 0])

C17_Witness ==
    \E t \in Tasks : \E u \in Tasks \ {t} :
        /\ opc[t] = "done" /\ result[t] = ErrorOnly("exec")
        /\ bpc[t]["client"] = "send" /\ bloc[t]["client"].val.err = "nil"
        /\ opc[u] = "done" /\ result[u] = ErrorOnly("build")
        /\ delivered[u]["server"] = 1 /\ delivered[u]["client"] = 1

\* the results a branch can send and Start can return
BranchErrors == {"build", "exec"}

\* C18: a failed SetParentFile leaves Start going on to start both branches; a failed
\* SetServerBuild / SetClientBuild after a successful build leaves the branch going on
\* with the new build exactly as after a successful write; the dependency write-back
\* runs only after Start has returned the triple and changes nothing of what it
\* returned; an error in a branch result arises only where buildFile or the engine
\* fails, so a render whose builds and execution succeed returns without error
\* whatever those cache writes did.
C18_CacheWriteFailuresNotFatal ==
    /\ [][\A t \in RedisTasks :
             (opc[t] = "idle" /\ opc'[t] # "idle" /\ faults' # faults) =>
                 /\ opc'[t] = "recv_server"
                 /\ bpc'[t] = [k \in Kinds |-> "begin"]
                 /\ result'[t] = result[t]]_vars
    /\ [][\A t \in RedisTasks, kind \in Kinds :
             (bpc[t][kind] = "update" /\ bpc'[t][kind] # "update" /\ faults' # faults) =>
                 /\ bpc'[t][kind] = WithBuild(t, kind, bloc[t][kind].build).pc
                 /\ bloc'[t][kind] = WithBuild(t, kind, bloc[t][kind].build).loc
                 /\ bloc[t][kind].build \in BuildResults]_vars
    /\ [][\A t \in RedisTasks :
             (wpc[t] \notin {"none", "done"} /\ <<wpc[t], wloc[t]>> # <<wpc'[t], wloc'[t]>>) =>
                 /\ opc[t] = "done" /\ result[t].err = "nil"
                 /\ opc'[t] = opc[t] /\ result'[t] = result[t]]_vars
    /\ [][\A t \in RedisTasks, kind \in Kinds :
             (bloc'[t][kind].val # bloc[t][kind].val
                 /\ bloc'[t][kind].val.err \notin {"none", "nil"}) =>
                 \/ bpc[t][kind] = "build" /\ bloc'[t][kind].val.err = "build"
                 \/ bpc[t][kind] = "exec" /\ bloc'[t][kind].val.err = "exec"]_vars
    /\ [](\A t \in RedisTasks :
             opc[t] = "done" => result[t].err \in {"nil"} \cup BranchErrors)

C18_Witness ==
    \E t \in RedisTasks :
        /\ opc[t] = "done" /\ result[t].err = "nil"
        /\ faults = 3
        /\ generateRouteID(TaskFile(t)) \notin DOMAIN redisRoutes
        /\ "server" \in bundled[t] /\ ServerKey(TaskFile(t)) \notin DOMAIN redisStrings
        /\ wpc[t] = "done" /\ DepsKey(TaskFile(t)) \notin DOMAIN redisStrings

\* C19: when getBuild returns an error (the GET fails, or the bytes under the key are
\* not a build), the branch goes on to buildFile as on a miss, with nothing sent; and
\* what Start returns never carries an error other than one of buildFile or of the
\* engine.
C19_GetErrorIsMiss ==
    /\ [][\A t \in RedisTasks, kind \in Kinds :
             (/\ bpc[t][kind] = "begin" /\ bpc'[t][kind] # "begin"
              /\ ~(kind = "client" /\ spa)
              /\ faults' # faults \/ RedisCache_GetBuild(kind, TaskFile(t)).err) =>
                 /\ bpc'[t][kind] = "build"
                 /\ bloc'[t][kind] = bloc[t][kind]
                 /\ UNCHANGED <<redisStrings, result>>]_vars
    /\ [](\A t \in RedisTasks, kind \in Kinds :
             /\ bpc[t][kind] = "send" => bloc[t][kind].val.err \in {"nil"} \cup BranchErrors
             /\ result[t].err \in {"none", "nil"} \cup BranchErrors)

C19_Witness ==
    \E t \in RedisTasks :
        /\ ~spa
        /\ faults = 1 /\ redisRoutes # EmptyMap
        /\ ServerKey(TaskFile(t)) \in DOMAIN redisStrings
        /\ redisStrings[ServerKey(TaskFile(t))] = Malformed
        /\ opc[t] = "done" /\ result[t].err = "nil"
        /\ bundled[t] = Kinds
        /\ ClientKey(TaskFile(t)) \in DOMAIN redisStrings

\* a Clear is between two of its steps: what it has emptied so far, and whether
\* something it has yet to empty still holds entries (LocalCache: the maps in the order
\* Clear takes their locks; RedisCache: the keys the SCAN cursor has yet to return)
ClearedSoFar ==
    IF backend = "local"
    THEN clearPc \in {"clientBuilds", "routeIDToParentFile", "parentFileToDependencies",
                      "dependencyToParentFiles"}
    ELSE clearPc = "scan" /\ scanLeft # {}
StillHeld ==
    IF backend = "local"
    THEN \/ clearPc = "clientBuilds" /\ clientBuilds # EmptyMap
         \/ clearPc \in {"clientBuilds", "routeIDToParentFile"} /\ reactFiles # EmptyMap
         \/ clearPc \in {"clientBuilds", "routeIDToParentFile", "parentFileToDependencies"}
               /\ dependencies # EmptyMap
         \/ clearPc # "idle" /\ parents # EmptyMap
    ELSE scanLeft \cap RedisKeys # {}

\* C21: Clear is atomic for the other callers of the store: no step of Clear that
\* removes entries ends in a state, open to every other call since they take none of
\* Clear's locks, where Clear is still under way and a store it has yet to empty
\* holds entries.
C21_ClearAtomic ==
    [][(clearPc' # clearPc
          /\ <<cacheVars, redisStrings, redisRoutes, redisSets>>'
                 # <<cacheVars, redisStrings, redisRoutes, redisSets>>)
       => ~(ClearedSoFar /\ StillHeld)']_vars

\* no root's stored dependency list holds d
NoDependents(d) == \A P \in Files : d \notin ForwardDeps(P)

\* the calls made so far ran one after another and each returned nil
SequentialCalls ==
    /\ AllIdle
    /\ ~overlapped
    /\ \A p \in CProcs : Len(registered[p]) = ncalls[p]

\* C22: in every state reached by a sequence of cache calls (each returned before the
\* next began, each returned nil), getParentFiles(d) is empty for every path d that
\* no root's current dependency list holds, also after the last dependent of d has
\* been replaced away.
C22_NoDependentsEmpty ==
    SequentialCalls =>
        \A d \in Files : NoDependents(d) => GetParentFilesFromDependency(d) = {}

(***************************************************************************)
(* RoutesSpec: route records and the lookups over them.  The dependency    *)
(* indices are what SetParentFileDependencies calls, made one after        *)
(* another, have left for the roots; SetParentFile and GetRouteIDSWithFile  *)
(* are called in any order.  Lists that Go builds by ranging over a map are *)
(* taken in one order; their users here read them as sets.                 *)
(***************************************************************************)
\* the indices after SetParentFileDependencies(root, regs[root]) for each root in regs
RECURSIVE RegisteredReverse(_, _)
RegisteredReverse(regs, roots) ==
    IF roots = {} THEN EmptyMap
    ELSE LET r == CHOOSE x \in roots : TRUE
         IN  AddNewReverse(RegisteredReverse(regs, roots \ {r}), regs[r], r)
RECURSIVE RegisteredSets(_, _)
RegisteredSets(regs, roots) ==
    IF roots = {} THEN EmptyMap
    ELSE LET r == CHOOSE x \in roots : TRUE
             RECURSIVE add(_, _)
             add(sets, deps) == IF deps = <<>> THEN sets
                                ELSE add(SAdd(sets, RevKey(Head(deps)), r), Tail(deps))
         IN  add(RegisteredSets(regs, roots \ {r}), regs[r])

RoutesInit ==
    /\ backend \in {"local", "redis"}
    /\ rootOf = [p \in CProcs |-> "A"]
    /\ serverBuilds = EmptyMap
    /\ clientBuilds = EmptyMap
    /\ reactFiles = EmptyMap
    /\ redisRoutes = EmptyMap
    /\ \E roots \in SUBSET Roots : \E regs \in [roots -> DepLists] :
          /\ dependencies = (IF backend = "local" THEN regs ELSE EmptyMap)
          /\ parents = (IF backend = "local" THEN RegisteredReverse(regs, roots)
                        ELSE EmptyMap)
          /\ redisStrings = (IF backend = "redis"
                             THEN [k \in {DepsKey(r) : r \in roots} |->
                                      JSONMarshalStrings(regs[k[2]])]
                             ELSE EmptyMap)
          /\ redisSets = (IF backend = "redis" THEN RegisteredSets(regs, roots)
                          ELSE EmptyMap)
    /\ faults = 0
    /\ InitCalls
    /\ InitStore
    /\ InitPool
    /\ InitTasks
    /\ spa = FALSE

\* SetParentFile(routeID, filePath): one map write / one HSET
Routes_SetParentFile(routeID, filePath) ==
    /\ \/ /\ backend = "local"
          /\ reactFiles' = MapSet(reactFiles, routeID, filePath)
          /\ UNCHANGED <<redisRoutes, faults>>
       \/ /\ backend = "redis"
          /\ redisRoutes' = MapSet(redisRoutes, routeID, filePath)
          /\ UNCHANGED <<reactFiles, faults>>
       \/ /\ backend = "redis"                                   \* return err
          /\ CanFail
          /\ Fault
          /\ UNCHANGED <<reactFiles, redisRoutes>>
    /\ UNCHANGED <<taskVars, poolVars, backend, serverBuilds, clientBuilds, dependencies,
                   parents, redisStrings, redisSets, callVars, storeVars>>

\* GetRouteIDSWithFile(filePath): the list, or the error of a failed SMEMBERS / HGETALL
Routes_GetRouteIDSWithFile(filePath) ==
    /\ \/ /\ ret' = [op |-> "routes", path |-> filePath,
                     ids |-> GetRouteIDSWithFile(filePath), err |-> FALSE]
          /\ UNCHANGED faults
       \/ /\ backend = "redis"                                   \* return nil, err
          /\ CanFail
          /\ Fault
          /\ ret' = [op |-> "routes", path |-> filePath, ids |-> <<>>, err |-> TRUE]
    /\ UNCHANGED <<taskVars, poolVars, backend, cacheVars, redisStrings, redisRoutes,
                   redisSets, callVars, stored, clearPc, scanLeft, scanKeys, nclears>>

RoutesNext ==
    \/ \E routeID \in RouteIDs, filePath \in Roots : Routes_SetParentFile(routeID, filePath)
    \/ \E filePath \in Files : Routes_GetRouteIDSWithFile(filePath)

RoutesSpec == RoutesInit /\ [][RoutesNext]_vars

\* C23: a GetRouteIDSWithFile(path) that returns no error returns, as a set, the union
\* of GetRouteIDSForParentFile(P) over the P in GetParentFilesFromDependency(path),
\* and GetRouteIDSForParentFile(path) when that set of parents is empty.  (ret is
\* looked at in the state the call returned in: no write has happened since.)
C23_RouteIDsWithFile ==
    [][\A filePath \in Files :
          (ret' # ret /\ ret'.op = "routes" /\ ret'.path = filePath /\ ~ret'.err) =>
              LET parentFiles == GetParentFilesFromDependency(filePath)
              IN  Range(ret'.ids) =
                     IF parentFiles = {} THEN Range(GetRouteIDSForParentFile(filePath))
                     ELSE UNION {Range(GetRouteIDSForParentFile(P)) : P \in parentFiles}]_vars

C23_Witness ==
    /\ ret.op = "routes" /\ ~ret.err
    /\ ret.path = "A"
    /\ GetParentFilesFromDependency("A") = {}
    /\ Range(ret.ids) = RouteIDs
    /\ \A route \in RouteIDs : RouteRecords[route] = "A"

(***************************************************************************)
(* BuildsSpec: a store that earlier calls have filled for root A, and      *)
(* GetBuild, SetBuild and RemoveBuild calls on it in any order.            *)
(***************************************************************************)
BuildsInit ==
    /\ backend \in {"local", "redis"}
    /\ rootOf = [p \in CProcs |-> "A"]
    /\ \E hasRoute, hasDeps \in BOOLEAN :
          \E leftover \in {EmptyMap} \cup (IF backend = "redis"
                                          THEN {MapSet(EmptyMap, ServerKey("B"), Malformed)}
                                          ELSE {}) :
             FilledStore(TRUE, TRUE, hasRoute, hasDeps, leftover)
    /\ faults = 0
    /\ InitCalls
    /\ clearPc = "idle"
    /\ scanLeft = {}
    /\ scanKeys = {}
    /\ nclears = 0
    /\ InitPool
    /\ InitTasks
    /\ spa = FALSE

BuildsNext ==
    \E kind \in Kinds, filePath \in Roots :
       \/ LocalGetBuild(kind, filePath)
       \/ RedisGetBuild(kind, filePath)
       \/ LocalRemoveBuild(kind, filePath)
       \/ RedisRemoveBuild(kind, filePath)
       \/ \E build \in BuildResults :
             \/ LocalSetBuild(kind, filePath, build)
             \/ RedisSetBuild(kind, filePath, build)

BuildsSpec == BuildsInit /\ [][BuildsNext]_vars

BuildKey(kind, filePath) ==
    IF kind = "server" THEN ServerKey(filePath) ELSE ClientKey(filePath)

\* the artifact of (kind, filePath) is in the store
HasBuild(kind, filePath) ==
    IF backend = "local"
    THEN filePath \in DOMAIN (IF kind = "server" THEN serverBuilds ELSE clientBuilds)
    ELSE BuildKey(kind, filePath) \in DOMAIN redisStrings

\* m2 is m except, possibly, at key
OthersKept(m, m2, key) ==
    \A k \in ((DOMAIN m) \cup (DOMAIN m2)) \ {key} :
        k \in DOMAIN m /\ k \in DOMAIN m2 /\ m[k] = m2[k]

RemoveBuildStep(kind, filePath) ==
    LocalRemoveBuild(kind, filePath) \/ RedisRemoveBuild(kind, filePath)

\* C24: a RemoveBuild(kind, filePath) call leaves the route records and both
\* dependency indices as they were, leaves the other kind's artifact of the path
\* and every artifact of another path as they were, changes nothing at all when
\* the artifact is absent, and when the command does not fail the artifact is
\* absent afterwards.
C24_RemoveOnlyThat ==
    [][\A kind \in Kinds, filePath \in Roots :
          RemoveBuildStep(kind, filePath) =>
             /\ <<reactFiles, dependencies, parents, redisRoutes, redisSets>>'
                   = <<reactFiles, dependencies, parents, redisRoutes, redisSets>>
             /\ IF backend = "local"
                THEN /\ kind = "server" =>
                           /\ clientBuilds' = clientBuilds
                           /\ OthersKept(serverBuilds, serverBuilds', filePath)
                     /\ kind = "client" =>
                           /\ serverBuilds' = serverBuilds
                           /\ OthersKept(clientBuilds, clientBuilds', filePath)
                     /\ redisStrings' = redisStrings
                ELSE /\ OthersKept(redisStrings, redisStrings', BuildKey(kind, filePath))
                     /\ <<serverBuilds, clientBuilds>>' = <<serverBuilds, clientBuilds>>
             /\ ~HasBuild(kind, filePath) =>
                   <<cacheVars, redisStrings>>' = <<cacheVars, redisStrings>>
             /\ faults' = faults => ~HasBuild(kind, filePath)'
       ]_vars

\* the server artifact of A has been removed; the client artifact of A, a client
\* artifact of B, the route record and the dependency indices are still there
C24_Witness ==
    /\ ~HasBuild("server", "A")
    /\ HasBuild("client", "A")
    /\ HasBuild("client", "B")
    /\ IF backend = "local"
       THEN reactFiles # EmptyMap /\ dependencies # EmptyMap /\ parents # EmptyMap
       ELSE /\ redisRoutes # EmptyMap /\ redisSets # EmptyMap
            /\ DepsKey("A") \in DOMAIN redisStrings

GetBuildStep(kind, filePath) ==
    LocalGetBuild(kind, filePath) \/ RedisGetBuild(kind, filePath)

\* C25: with GetBuild, SetBuild, RemoveBuild and Clear calls of several goroutines
\* interleaved in any order, every GetBuild returns either found = false with the
\* zero artifact, or found = true with one of the artifacts that were passed whole
\* to a SetBuild, which is the one the last successful SetBuild of that kind and
\* path stored.
C25_GetNeverTorn ==
    [][\A kind \in Kinds, filePath \in Roots :
          GetBuildStep(kind, filePath) =>
             IF ret'.ok
             THEN /\ ret'.build \in BuildResults
                  /\ StoreKey(kind, filePath) \in DOMAIN stored
                  /\ ret'.build = stored[StoreKey(kind, filePath)]
             ELSE ret'.build = ZeroBuild
       ]_vars

\* a GetBuild returned the first artifact; since then every entry that is left was
\* overwritten with the second artifact and another was removed
C25_Witness ==
    /\ ret.op = "get" /\ ret.ok
    /\ ret.build = [JS |-> "js1", CSS |-> "css1", Dependencies |-> <<>>]
    /\ StoreKey("client", "A") \in DOMAIN stored
    /\ \A k \in DOMAIN stored :
          stored[k] = [JS |-> "js2", CSS |-> "css1", Dependencies |-> <<"B">>]
    /\ Cardinality(DOMAIN stored) < 4

\* C26: RedisCache.GetServerBuild and GetClientBuild return (zero, false, nil) when
\* GET answers that the key does not exist, and (zero, false, err) with err non-nil
\* when the command fails or the bytes stored under the key do not decode; found is
\* true only with a nil error.
C26_MissIsNotFailure ==
    [][\A kind \in Kinds, filePath \in Roots :
          RedisGetBuild(kind, filePath) =>
             LET key == BuildKey(kind, filePath)
                 failed == faults' # faults
                 undecodable == /\ key \in DOMAIN redisStrings
                                /\ JSONUnmarshalBuild(redisStrings[key]).err
             IN  /\ (~failed /\ key \notin DOMAIN redisStrings) =>
                        ret' = [op |-> "get", build |-> ZeroBuild, ok |-> FALSE, err |-> FALSE]
                 /\ (failed \/ undecodable) =>
                        ret' = [op |-> "get", build |-> ZeroBuild, ok |-> FALSE, err |-> TRUE]
                 /\ ret'.ok => ~ret'.err
       ]_vars

\* no command has failed, a GetBuild of the key holding undecodable bytes returned
\* an error, and the client key of the same path does not exist
C26_Witness ==
    /\ backend = "redis" /\ faults = 0
    /\ ret.op = "get" /\ ret.err /\ ~ret.ok
    /\ ServerKey("B") \in DOMAIN redisStrings
    /\ redisStrings[ServerKey("B")] = Malformed
    /\ ClientKey("B") \notin DOMAIN redisStrings

(***************************************************************************)
(* PairSpec: a LocalCache and a RedisCache, both new, given the same calls *)
(* one after the other by one goroutine; no Redis command fails and no key *)
(* expires (RedisTTL = 0).  A call returns before the next one starts, so  *)
(* each call is one step.                                                  *)
(***************************************************************************)
PairPaths == {"A"}                  \* paths of the builds stored

\* RedisCache.SetParentFileDependencies, all its commands having run
RECURSIVE SRemAll(_, _, _)
SRemAll(sets, oldDeps, filePath) ==
    IF oldDeps = <<>> THEN sets
    ELSE SRemAll(SRem(sets, RevKey(Head(oldDeps)), filePath), Tail(oldDeps), filePath)
RECURSIVE SAddAll(_, _, _)
SAddAll(sets, deps, filePath) ==
    IF deps = <<>> THEN sets
    ELSE SAddAll(SAdd(sets, RevKey(Head(deps)), filePath), Tail(deps), filePath)
RedisOldDeps(filePath) ==
    IF DepsKey(filePath) \in DOMAIN redisStrings
    THEN JSONUnmarshalStrings(redisStrings[DepsKey(filePath)]).v ELSE <<>>

\* the routes recorded for filePath, and GetRouteIDSWithFile, as sets
RoutesFor(records, filePath) == {route \in DOMAIN records : records[route] = filePath}
RoutesWithFile(records, parentFiles, filePath) ==
    UNION {RoutesFor(records, reactFile) :
              reactFile \in Range(ParentsOrSelf(SeqOf(parentFiles), filePath))}

Queries ==
    {[q |-> "GetBuild", kind |-> kind, path |-> f] : kind \in Kinds, f \in PairPaths}
    \cup {[q |-> c, path |-> f] :
             c \in {"GetRouteIDSForParentFile", "GetRouteIDSWithFile",
                    "GetParentFilesFromDependency"}, f \in Files}
    \cup {[q |-> "GetAllRouteIDS"]}

LocalAnswer(query) ==
    CASE query.q = "GetBuild" ->
            IF query.kind = "server" THEN LocalCache_GetServerBuild(query.path)
            ELSE LocalCache_GetClientBuild(query.path)
      [] query.q = "GetRouteIDSForParentFile" -> RoutesFor(reactFiles, query.path)
      [] query.q = "GetAllRouteIDS" -> DOMAIN reactFiles
      [] query.q = "GetRouteIDSWithFile" ->
            RoutesWithFile(reactFiles, LocalCache_GetParentFilesFromDependency(query.path),
                           query.path)
      [] query.q = "GetParentFilesFromDependency" ->
            LocalCache_GetParentFilesFromDependency(query.path)

RedisAnswer(query) ==
    CASE query.q = "GetBuild" -> RedisCache_GetBuild(query.kind, query.path)
      [] query.q = "GetRouteIDSForParentFile" -> RoutesFor(redisRoutes, query.path)
      [] query.q = "GetAllRouteIDS" -> DOMAIN redisRoutes
      [] query.q = "GetRouteIDSWithFile" ->
            RoutesWithFile(redisRoutes, RedisCache_GetParentFilesFromDependency(query.path),
                           query.path)
      [] query.q = "GetParentFilesFromDependency" ->
            RedisCache_GetParentFilesFromDependency(query.path)

PairFrame ==
    UNCHANGED <<taskVars, poolVars, backend, faults, callVars, stored, clearPc, scanLeft,
                scanKeys, nclears>>

Pair_SetBuild(kind, filePath, build) ==
    /\ IF kind = "server"
       THEN /\ serverBuilds' = LocalCache_SetServerBuild(serverBuilds, filePath, build)
            /\ UNCHANGED clientBuilds
       ELSE /\ clientBuilds' = LocalCache_SetClientBuild(clientBuilds, filePath, build)
            /\ UNCHANGED serverBuilds
    /\ redisStrings' = RedisCache_SetBuild(redisStrings, kind, filePath, build)
    /\ UNCHANGED <<reactFiles, dependencies, parents, redisRoutes, redisSets, ret>>
    /\ PairFrame

Pair_RemoveBuild(kind, filePath) ==
    /\ IF kind = "server"
       THEN /\ serverBuilds' = LocalCache_RemoveServerBuild(serverBuilds, filePath)
            /\ redisStrings' = RedisCache_RemoveServerBuild(redisStrings, filePath)
            /\ UNCHANGED clientBuilds
       ELSE /\ clientBuilds' = LocalCache_RemoveClientBuild(clientBuilds, filePath)
            /\ redisStrings' = RedisCache_RemoveClientBuild(redisStrings, filePath)
            /\ UNCHANGED serverBuilds
    /\ UNCHANGED <<reactFiles, dependencies, parents, redisRoutes, redisSets, ret>>
    /\ PairFrame

Pair_SetParentFile(routeID, filePath) ==
    /\ reactFiles' = MapSet(reactFiles, routeID, filePath)
    /\ redisRoutes' = MapSet(redisRoutes, routeID, filePath)
    /\ UNCHANGED <<serverBuilds, clientBuilds, dependencies, parents, redisStrings,
                   redisSets, ret>>
    /\ PairFrame

Pair_SetParentFileDependencies(filePath, deps) ==
    /\ LET oldDeps == IF filePath \in DOMAIN dependencies
                      THEN dependencies[filePath] ELSE <<>>
       IN  /\ dependencies' = MapSet(dependencies, filePath, deps)
           /\ parents' = AddNewReverse(RemoveOldReverse(parents, oldDeps, filePath),
                                       deps, filePath)
    /\ redisStrings' = MapSet(redisStrings, DepsKey(filePath), JSONMarshalStrings(deps))
    /\ redisSets' = SAddAll(SRemAll(redisSets, RedisOldDeps(filePath), filePath),
                            deps, filePath)
    /\ UNCHANGED <<serverBuilds, clientBuilds, reactFiles, redisRoutes, ret>>
    /\ PairFrame

Pair_Clear ==
    /\ serverBuilds' = EmptyMap
    /\ clientBuilds' = EmptyMap
    /\ reactFiles' = EmptyMap
    /\ dependencies' = EmptyMap
    /\ parents' = EmptyMap
    /\ redisStrings' = RedisDel(redisStrings, RedisKeys)
    /\ redisSets' = RedisDel(redisSets, RedisKeys)
    /\ redisRoutes' = (IF RoutesKey \in RedisKeys THEN EmptyMap ELSE redisRoutes)
    /\ UNCHANGED ret
    /\ PairFrame

\* one of the reading calls, made on both caches, and whether the answers agree
Pair_Get(query) ==
    /\ ret' = [op |-> "pair", query |-> query,
               same |-> (LocalAnswer(query) = RedisAnswer(query))]
    /\ UNCHANGED <<cacheVars, redisStrings, redisRoutes, redisSets>>
    /\ PairFrame

PairInit ==
    /\ backend = "pair"
    /\ rootOf = [p \in CProcs |-> "A"]
    /\ InitCache
    /\ faults = 0
    /\ InitCalls
    /\ InitStore
    /\ InitPool
    /\ InitTasks
    /\ spa = FALSE

PairNext ==
    \/ \E kind \in Kinds, filePath \in PairPaths :
          \/ \E build \in BuildResults : Pair_SetBuild(kind, filePath, build)
          \/ Pair_RemoveBuild(kind, filePath)
    \/ \E routeID \in RouteIDs, filePath \in Roots : Pair_SetParentFile(routeID, filePath)
    \/ \E filePath \in Roots, deps \in DepLists : Pair_SetParentFileDependencies(filePath, deps)
    \/ Pair_Clear
    \/ \E query \in Queries : Pair_Get(query)

PairSpec == PairInit /\ [][PairNext]_vars

\* C27: after the same calls made one after the other on a LocalCache and on a
\* RedisCache whose commands all succeed and whose keys do not expire, every reading
\* call gives the same answer on both: the same found flag and artifact for
\* GetServerBuild and GetClientBuild, and the same set of route IDs or parent files
\* for GetRouteIDSForParentFile, GetAllRouteIDS, GetRouteIDSWithFile and
\* GetParentFilesFromDependency.
C27_BackendsAgree ==
    /\ \A query \in Queries : LocalAnswer(query) = RedisAnswer(query)
    /\ ret.op = "pair" => ret.same

\* both caches were asked the parents of B and hold {A} after A's list <<"B", "C">> was
\* replaced by <<"B">>, a client build is stored, and a route is recorded for A
C27_Witness ==
    /\ ret.op = "pair" /\ ret.query = [q |-> "GetParentFilesFromDependency", path |-> "B"]
    /\ ret.same
    /\ LocalCache_GetParentFilesFromDependency("B") = {"A"}
    /\ RedisCache_GetParentFilesFromDependency("B") = {"A"}
    /\ dependencies = MapSet(EmptyMap, "A", <<"B">>)
    /\ RedisCache_GetParentFilesFromDependency("C") = {}
    /\ RevKey("C") \notin DOMAIN redisSets
    /\ LocalCache_GetClientBuild("A").ok
    /\ RoutesFor(redisRoutes, "A") # {}

\* the map LocalCache keeps for a build type
BuildsOf(kind) == IF kind = "server" THEN serverBuilds ELSE clientBuilds

\* branch (t, kind) takes a step
BranchSteps(t, kind) == bpc'[t][kind] # bpc[t][kind]

\* C28: a branch whose cache lookup finds the build goes on with that build without
\* calling the Bundler, and no step of it writes the build maps; a branch whose
\* lookup finds none calls buildFile, once, and when that returns a build its next
\* step stores exactly that build under the root path, and only then is the build
\* used (injectProps, execution, the result sent).  The Bundler is called from
\* nowhere else.
C28_HitSkipsMissBuildsOnce ==
    [][\A t \in Tasks, kind \in Kinds :
          LET filePath == TaskFile(t)
              hit == filePath \in DOMAIN BuildsOf(kind)
              lookup == /\ bpc[t][kind] = "begin" /\ BranchSteps(t, kind)
                        /\ ~(kind = "client" /\ spa)
          IN  /\ (lookup /\ hit) =>
                    /\ bpc'[t][kind] = (IF kind = "server" THEN "exec" ELSE "send")
                    /\ kind = "server" => bloc'[t][kind].build = BuildsOf(kind)[filePath]
                    /\ kind = "client" =>
                          bloc'[t][kind].val.js
                             = injectProps(BuildsOf(kind)[filePath].JS, Props(t))
                    /\ kind \notin bundled'[t]
                    /\ UNCHANGED <<serverBuilds, clientBuilds>>
              /\ (lookup /\ ~hit) =>
                    /\ bpc'[t][kind] = "build"
                    /\ UNCHANGED <<serverBuilds, clientBuilds, bundled>>
              /\ (kind \in bundled'[t] /\ kind \notin bundled[t]) => bpc[t][kind] = "build"
              /\ (bpc[t][kind] = "build" /\ BranchSteps(t, kind)) =>
                    /\ kind \notin bundled[t] /\ kind \in bundled'[t]
                    /\ bpc'[t][kind] \in {"update", "send"}
                    /\ bpc'[t][kind] = "send" => bloc'[t][kind].val.err = "build"
                    /\ UNCHANGED <<serverBuilds, clientBuilds>>
              /\ (bpc[t][kind] = "update" /\ BranchSteps(t, kind)) =>
                    /\ kind \in bundled[t]
                    /\ filePath \in DOMAIN BuildsOf(kind)'
                    /\ BuildsOf(kind)'[filePath] = bloc[t][kind].build
                    /\ bpc'[t][kind] = (IF kind = "server" THEN "exec" ELSE "send")
                    /\ kind = "server" => bloc'[t][kind].build = bloc[t][kind].build
                    /\ kind = "client" =>
                          bloc'[t][kind].val.js
                             = injectProps(bloc[t][kind].build.JS, Props(t))
              /\ (BranchSteps(t, kind) /\ bpc[t][kind] # "update") =>
                    BuildsOf(kind)' = BuildsOf(kind)
       ]_vars

\* one render built and stored both kinds, the other found both and has returned
\* without a Bundler call, while the first one's client branch has its result ready
C28_Witness ==
    \E t \in Tasks : \E u \in Tasks \ {t} :
        /\ ~spa
        /\ bundled[t] = Kinds /\ bundled[u] = {}
        /\ opc[u] = "done" /\ result[u].err = "nil"
        /\ bpc[t]["client"] = "send"
        /\ TaskFile(t) \in DOMAIN serverBuilds /\ TaskFile(t) \in DOMAIN clientBuilds

\* the write-back goroutine of render t takes a step
WriteBackSteps(t) == <<wpc[t], wloc[t]>> # <<wpc'[t], wloc'[t]>>

\* C29: the goroutine calling SetParentFileDependencies is started in the very step
\* in which Start returns the triple with a nil error, both branch results having
\* been received without error, and with the list the client branch sent; each of
\* its steps comes after that return and changes neither what was returned nor the
\* list; the SET it issues stores that list under the root's key and each SADD adds
\* the root to the set of one entry of the list; a command of it that fails changes
\* nothing in the store and nothing of the render's result.
C29_WriteBackAfterReturn ==
    /\ [][\A t \in RedisTasks :
             (wpc[t] = "none" /\ wpc'[t] # "none") =>
                 /\ opc[t] = "recv_client" /\ opc'[t] = "done"
                 /\ oloc[t].err = "nil"
                 /\ bloc[t]["client"].val.err = "nil"
                 /\ result'[t].err = "nil"
                 /\ result'[t].js = bloc[t]["client"].val.js
                 /\ wloc'[t].deps = bloc[t]["client"].val.dependencies
                 /\ UNCHANGED <<redisStrings, redisRoutes, redisSets>>]_vars
    /\ [][\A t \in RedisTasks :
             (wpc[t] # "none" /\ WriteBackSteps(t)) =>
                 /\ opc[t] = "done" /\ result[t].err = "nil"
                 /\ opc'[t] = "done" /\ result'[t] = result[t]
                 /\ wpc'[t] # "done" => wloc'[t].deps = wloc[t].deps
                 /\ faults' # faults => UNCHANGED <<redisStrings, redisRoutes, redisSets>>
                 /\ redisStrings' # redisStrings =>
                       redisStrings' = MapSet(redisStrings, DepsKey(TaskFile(t)),
                                              JSONMarshalStrings(wloc[t].deps))
                 /\ \A dep \in Files :
                       (/\ TaskFile(t) \in RedisCache_GetParentFilesFromDependency(dep)'
                        /\ TaskFile(t) \notin RedisCache_GetParentFilesFromDependency(dep)) =>
                           dep \in Range(wloc[t].deps)]_vars
    /\ [](\A t \in RedisTasks :
             /\ wpc[t] # "none" => opc[t] = "done" /\ result[t].err = "nil"
             /\ (opc[t] = "done" /\ result[t].err # "nil") => wpc[t] = "none")

\* Start has returned the triple while the write-back is between its SET and its
\* SADD: the list <<"B">> of the client build is stored under the root's key and the
\* reverse set of B does not hold the root yet
C29_Witness ==
    \E t \in RedisTasks :
        /\ ~spa /\ faults = 0
        /\ opc[t] = "done" /\ result[t].err = "nil"
        /\ wpc[t] = "r_sadd" /\ wloc[t].deps = <<"B">>
        /\ DepsKey(TaskFile(t)) \in DOMAIN redisStrings
        /\ redisStrings[DepsKey(TaskFile(t))] = JSONMarshalStrings(<<"B">>)
        /\ TaskFile(t) \notin RedisCache_GetParentFilesFromDependency("B")

\* C30: with a cached SPA bundle, no step of a client branch reads or writes the
\* client builds (with RedisCache it issues no command at all) or calls the Bundler:
\* from its start the branch only sends the cached bundle, with no dependencies and
\* no error, whatever the store holds for the root; so a render that returns a
\* triple returns the cached bundle as its script, whatever its payload.
C30_SPAShortCircuit ==
    /\ [][\A t \in Tasks :
             (spa /\ bpc[t]["client"] # "none" /\ bpc'[t]["client"] # bpc[t]["client"]) =>
                 /\ UNCHANGED <<clientBuilds, redisStrings, faults, bundled>>
                 /\ bpc[t]["client"] = "begin" =>
                       /\ bpc'[t]["client"] = "send"
                       /\ bloc'[t]["client"].val =
                             [js |-> CachedClientSPAJS, dependencies |-> <<>>, err |-> "nil"]
                 /\ bpc[t]["client"] = "send" => bpc'[t]["client"] = "done"]_vars
    /\ [](\A t \in Tasks :
             spa =>
                 /\ "client" \notin bundled[t]
                 /\ bpc[t]["client"] \in {"none", "begin", "send", "done"}
                 /\ (opc[t] = "done" /\ result[t].err = "nil") =>
                       result[t].js = CachedClientSPAJS)

\* with a cached SPA bundle and a client build of the root left in the store, a
\* render built the server side only and returned the cached bundle; the stored
\* client build is as it was
C30_Witness ==
    \E t \in Tasks :
        /\ spa /\ faults = 0
        /\ opc[t] = "done" /\ result[t].err = "nil" /\ result[t].js = CachedClientSPAJS
        /\ bundled[t] = {"server"}
        /\ ClientKey(TaskFile(t)) \in DOMAIN redisStrings
        /\ redisStrings[ClientKey(TaskFile(t))]
              = JSONMarshalBuild([JS |-> "js1", CSS |-> "css1", Dependencies |-> <<>>])

C32_SameRootQuiescent ==
    (AllIdle /\ \A p \in CProcs : rootOf[p] = "A") =>
        \A d \in Files : "A" \in GetParentFilesFromDependency(d) <=> d \in ForwardDeps("A")

\* C33: no Put sends on the idle queue once Close has closed it: a Put that has
\* passed its select has enqueued the runtime or destroyed it, and has not panicked.
C33_NoSendOnClosedQueue ==
    \A p \in PProcs :
        /\ xlog[p].acts # "reset,panic"
        /\ (ppc[p] \in {"idle", "panicked"} /\ xlog[p].acts # "none") =>
              xlog[p].acts \in {"destroy", "reset,enqueue", "reset,destroy"}

\* C34: a runtime that a goroutine is about to run code in (rt.Execute) or about to
\* reset (rt.Reset in Put) has not been disposed.
C34_NoUseAfterDispose ==
    \A p \in PProcs :
        (ppc[p] \in {"run", "put_reset"} /\ held[p] # NilRt) => Live(runtimes[held[p]])

\* C35: what Get returns is never the nil runtime, also when Close has returned
\* before the call, and rt.Execute on it does not panic.
C35_GetReturnsUsable ==
    \A p \in PProcs :
        /\ NilRt \notin Range(xlog[p].got)
        /\ xlog[p].out # "panic"

\* C36: when a call of RedisCache.SetParentFileDependencies that overlapped no other
\* call has returned an error, the reverse sets hold the root exactly under the
\* members of the root's stored dependency list.
C36_ErrorLeavesConsistent ==
    \A p \in CProcs :
        (~overlapped /\ AllIdle /\ ncalls[p] > 0 /\ registered[p] = <<>>) =>
            \A d \in Files :
                rootOf[p] \in GetParentFilesFromDependency(d) <=> d \in ForwardDeps(rootOf[p])

\* C37: once the watcher's loop for an edited file has removed the builds of root A,
\* no branch that already held its Bundler result when the event arrived passes that
\* result to updateBuildCache for A.
C37_NoStaleStore ==
    [][\A t \in Tasks, kind \in Kinds :
          (Render_doRender_Update(t, kind) /\ hpc = "idle" /\ TaskFile(t) \in inval.parents)
              => <<t, kind>> \notin inval.built]_vars

\* C38: a file event that arrives after a render has returned its triple, for a file
\* in the dependency list that render's client build reported, finds the render's
\* root among the parent files whose builds it removes.
C38_ReturnedRenderIsInvalidated ==
    [][\A filePath \in WatchedFiles, t \in Tasks :
          ( /\ Watcher_Event(filePath)
            /\ opc[t] = "done" /\ result[t].err = "nil"
            /\ wpc[t] \in {"forward", "reverse"}
            /\ filePath \in Range(wloc[t].deps) )
              => TaskFile(t) \in LocalCache_GetParentFilesFromDependency(filePath)]_vars

====
